---- MODULE Spec2Model ----
(***************************************************************************)
(* Model of the appointment engine of salon-one-api: time-slot generation, *)
(* occupancy marking, multi-service sequential booking with optional       *)
(* automatic employee assignment, and the appointment status operations.   *)
(*                                                                         *)
(* A time of day "HH:MM" is the pair <<hours, minutes>>; parseTime and     *)
(* formatTime convert between it and minutes since midnight.  A date is a  *)
(* day number; an instant is a number of minutes (day * 1440 + minutes).   *)
(***************************************************************************)
EXTENDS Integers, Sequences, FiniteSets, TLC

VARIABLES
  salon,                \* the salons row (configuration of the owner)
  services,             \* rows of services (the catalog), keyed by id
  employees,            \* rows of employees, keyed by id
  schedules,            \* rows of employee_schedules
  scheduleCalls,        \* the updateSchedule() calls under way, one per process
  nextScheduleId,       \* the next id of employee_schedules (stands for a fresh uuid)
  appointments,         \* rows of appointments, keyed by id
  appointmentServices,  \* rows of appointment_services
  nextId,               \* next appointment id to hand out (ids are unique)
  now,                  \* the wall clock, in minutes
  procs,                \* in-flight create() calls (interleaved execution)
  query,                \* input of the pure slot calculation
  slots                 \* output of the pure calculation: <<>> or <<result>>

vars == <<salon, services, employees, schedules, scheduleCalls, nextScheduleId, appointments, appointmentServices, nextId, now,
          procs, query, slots>>

----------------------------------------------------------------------------
(* Bounds of the model *)

MaxTicks == 1
MaxK == 5
MaxBusy == 2
MaxScheduleId == 6
MaxLoopSteps == 30

----------------------------------------------------------------------------
(* Fixed data: one salon, two employees, two services *)

None == "none"

Employees == {"e1", "e2"}
Services == {"s1", "s2"}
Procs == {"p1", "p2"}

\* a service in the catalog of another salon
OtherSalonServices == {"s3"}

\* the appointment ids the database hands out, in this order
AppointmentIds == {1, 2}

\* the numbers of services one booking request asks for
ServiceCounts == {1, 2}

Statuses == {"pending", "confirmed", "in_progress", "completed", "cancelled", "no_show"}
ActiveStatuses == {"pending", "confirmed", "in_progress"}

\* services.duration of the two catalog rows at the start (minutes)
ServiceDuration == [s \in Services \cup OtherSalonServices |-> IF s = "s1" THEN 30 ELSE 20]

\* services.price of the two catalog rows at the start
ServicePrice == [s \in Services \cup OtherSalonServices |-> IF s = "s1" THEN 50 ELSE 40]

\* employees rows of another salon
OtherSalonEmployees == {"e5"}

\* employee_services: who can perform what
EmployeeServices == {<<"e1", "s1">>, <<"e1", "s2">>, <<"e2", "s2">>}

Dates == {1, 2}
StartTimes == {<<9, 0>>, <<9, 20>>}

\* the clock at the start: day 1, 08:00
InitialNow == 1 * 1440 + 8 * 60

----------------------------------------------------------------------------
(* time.utils.ts *)

parseTime(t) == t[1] * 60 + t[2]

formatTime(minutes) == <<minutes \div 60, minutes % 60>>

\* doTimeRangesOverlap without its third case (one range containing the other)
doTimeRangesOverlapNoContainment(range1, range2) ==
  LET start1 == parseTime(range1.start)
      end1   == parseTime(range1.end)
      start2 == parseTime(range2.start)
      end2   == parseTime(range2.end)
  IN  \/ (start1 >= start2 /\ start1 < end2)
      \/ (end1 > start2 /\ end1 <= end2)

\* doTimeRangesOverlap with >= for > in its second case: ranges that merely
\* touch count as overlapping
doTimeRangesOverlapTouching(range1, range2) ==
  LET start1 == parseTime(range1.start)
      end1   == parseTime(range1.end)
      start2 == parseTime(range2.start)
      end2   == parseTime(range2.end)
  IN  \/ (start1 >= start2 /\ start1 < end2)
      \/ (end1 >= start2 /\ end1 <= end2)
      \/ (start1 <= start2 /\ end1 >= end2)

doTimeRangesOverlap(range1, range2) ==
  LET start1 == parseTime(range1.start)
      end1   == parseTime(range1.end)
      start2 == parseTime(range2.start)
      end2   == parseTime(range2.end)
  IN  \/ (start1 >= start2 /\ start1 < end2)
      \/ (end1 > start2 /\ end1 <= end2)
      \/ (start1 <= start2 /\ end1 >= end2)

calculateEndTime(startTime, duration) == formatTime(parseTime(startTime) + duration)

\* the loop of generateTimeSlots with <= for <: a slot at the end of the range
RECURSIVE generateLoopInclusive(_, _, _)
generateLoopInclusive(currentMinutes, endMinutes, interval) ==
  IF currentMinutes <= endMinutes
  THEN <<formatTime(currentMinutes)>> \o generateLoopInclusive(currentMinutes + interval, endMinutes, interval)
  ELSE <<>>

RECURSIVE generateLoop(_, _, _)
generateLoop(currentMinutes, endMinutes, interval) ==
  IF currentMinutes < endMinutes
  THEN <<formatTime(currentMinutes)>> \o generateLoop(currentMinutes + interval, endMinutes, interval)
  ELSE <<>>

generateTimeSlots(startTime, endTime, interval) ==
  generateLoop(parseTime(startTime), parseTime(endTime), interval)

RECURSIVE hasConsecutiveFreeSlotsFrom(_, _, _, _, _)
hasConsecutiveFreeSlotsFrom(i, allSlots, occupiedSlots, startSlotIndex, requiredSlots) ==
  IF i >= requiredSlots THEN TRUE
  ELSE LET slotIndex == startSlotIndex + i
       IN  IF slotIndex > Len(allSlots) THEN FALSE
           ELSE IF allSlots[slotIndex] \in occupiedSlots THEN FALSE
           ELSE hasConsecutiveFreeSlotsFrom(i + 1, allSlots, occupiedSlots, startSlotIndex, requiredSlots)

\* indices are 1-based here: slot k of the model is allSlots[k-1] of the code
hasConsecutiveFreeSlots(allSlots, occupiedSlots, startSlotIndex, requiredSlots) ==
  hasConsecutiveFreeSlotsFrom(0, allSlots, occupiedSlots, startSlotIndex, requiredSlots)

\* Math.ceil(a / b) for a >= 0, b > 0
Ceil(a, b) == (a + b - 1) \div b

RECURSIVE availableLoop(_, _, _, _)
availableLoop(i, allSlots, occupiedSlots, requiredSlots) ==
  IF i > Len(allSlots) THEN <<>>
  ELSE LET rest == availableLoop(i + 1, allSlots, occupiedSlots, requiredSlots)
       IN  IF allSlots[i] \in occupiedSlots THEN rest
           ELSE IF hasConsecutiveFreeSlots(allSlots, occupiedSlots, i, requiredSlots)
                THEN <<allSlots[i]>> \o rest
                ELSE rest

getAvailableSlots(allSlots, occupiedSlots, serviceDuration, interval) ==
  availableLoop(1, allSlots, occupiedSlots, Ceil(serviceDuration, interval))

canAccommodateService(slotTime, serviceDuration, maxEndTime) ==
  parseTime(calculateEndTime(slotTime, serviceDuration)) <= parseTime(maxEndTime)

----------------------------------------------------------------------------
(* appointments.service.ts: the availability calculation *)

RECURSIVE occupiedLoop(_, _, _)
occupiedLoop(minutes, endMinutes, slotInterval) ==
  IF minutes < endMinutes
  THEN {formatTime(minutes)} \cup occupiedLoop(minutes + slotInterval, endMinutes, slotInterval)
  ELSE {}

calculateOccupiedSlotsFromRanges(ranges, slotInterval) ==
  UNION {occupiedLoop(parseTime(r.startTime), parseTime(r.endTime), slotInterval) : r \in ranges}

\* the slot computation of calculateEmployeeAvailableSlots, from the schedule
\* window and the occupied ranges on
validSlots(schedule, occupiedRanges, totalDuration, slotInterval) ==
  LET allSlots       == generateTimeSlots(schedule.startTime, schedule.endTime, slotInterval)
      occupiedSlots  == calculateOccupiedSlotsFromRanges(occupiedRanges, slotInterval)
      availableSlots == getAvailableSlots(allSlots, occupiedSlots, totalDuration, slotInterval)
      Fits(slot)     == canAccommodateService(slot, totalDuration, schedule.endTime)
  IN  SelectSeq(availableSlots, Fits)

----------------------------------------------------------------------------
(* Repositories *)

\* Date.getDay() of a date
DayOfWeek(date) == date % 7

\* EmployeeSchedulesRepository.findByEmployeeAndDay: the matching rows (the
\* table is unique on (employeeId, dayOfWeek), so at most one)
findByEmployeeAndDay(employeeId, dayOfWeek) ==
  {s \in schedules : s.employeeId = employeeId /\ s.dayOfWeek = dayOfWeek}

\* EmployeeServicesRepository.exists
exists(employeeId, serviceId) == <<employeeId, serviceId>> \in EmployeeServices

\* findByEmployeeAndDateWithStatus without the condition on the employee
findByAnyEmployeeAndDateWithStatus(employeeId, date, statuses) ==
  {item \in appointmentServices :
     /\ item.appointmentId \in DOMAIN appointments
     /\ appointments[item.appointmentId].appointmentDate = date
     /\ appointments[item.appointmentId].status \in statuses}

\* AppointmentServicesRepository.findByEmployeeAndDateWithStatus: the join of
\* appointment_services with appointments
findByEmployeeAndDateWithStatus(employeeId, date, statuses) ==
  {item \in appointmentServices :
     /\ item.employeeId = employeeId
     /\ item.appointmentId \in DOMAIN appointments
     /\ appointments[item.appointmentId].appointmentDate = date
     /\ appointments[item.appointmentId].status \in statuses}

\* EmployeesRepository.findBySalonId has no ORDER BY: the rows come in any order
EmployeeOrders ==
  {o \in [1..Cardinality(Employees) -> Employees] : \A i, j \in DOMAIN o : o[i] = o[j] => i = j}

----------------------------------------------------------------------------
(* AppointmentsService: booking creation *)

\* the overlap test in the conflict loop of validateEmployeeAvailability
slotOverlapsExisting(slotStart, slotEnd, existingStart, existingEnd) ==
  slotStart < existingEnd /\ slotEnd > existingStart

\* validateEmployeeAvailability without the check against the working hours
validateEmployeeAvailabilityAnyHour(employeeId, date, startTime, endTime, dayOfWeek) ==
  LET found == {s \in schedules : s.employeeId = employeeId /\ s.dayOfWeek = dayOfWeek}
      active == {item \in appointmentServices :
                   /\ item.employeeId = employeeId
                   /\ item.appointmentId \in DOMAIN appointments
                   /\ appointments[item.appointmentId].appointmentDate = date
                   /\ appointments[item.appointmentId].status \in ActiveStatuses}
  IN  /\ found # {}
      /\ \A s \in found : s.isAvailable
      /\ ~ \E item \in active :
             parseTime(startTime) < parseTime(item.endTime)
               /\ parseTime(endTime) > parseTime(item.startTime)

validateEmployeeAvailability(employeeId, date, startTime, endTime, dayOfWeek) ==
  LET found == findByEmployeeAndDay(employeeId, dayOfWeek)
  IN  IF found = {} THEN FALSE
      ELSE LET schedule      == CHOOSE s \in found : TRUE
               scheduleStart == parseTime(schedule.startTime)
               scheduleEnd   == parseTime(schedule.endTime)
               slotStart     == parseTime(startTime)
               slotEnd       == parseTime(endTime)
               active        == findByEmployeeAndDateWithStatus(employeeId, date, ActiveStatuses)
           IN  IF ~schedule.isAvailable THEN FALSE
               ELSE IF slotStart < scheduleStart \/ slotEnd > scheduleEnd THEN FALSE
               ELSE ~ \E item \in active :
                        slotOverlapsExisting(slotStart, slotEnd,
                                             parseTime(item.startTime), parseTime(item.endTime))

RECURSIVE findAvailableEmployeeFrom(_, _, _, _, _, _, _)
findAvailableEmployeeFrom(k, allEmployees, serviceId, date, startTime, endTime, dayOfWeek) ==
  IF k > Len(allEmployees) THEN None
  ELSE IF /\ exists(allEmployees[k], serviceId)
          /\ validateEmployeeAvailability(allEmployees[k], date, startTime, endTime, dayOfWeek)
       THEN allEmployees[k]
       ELSE findAvailableEmployeeFrom(k + 1, allEmployees, serviceId, date, startTime, endTime, dayOfWeek)

findAvailableEmployee(allEmployees, serviceId, date, startTime, endTime, dayOfWeek) ==
  findAvailableEmployeeFrom(1, allEmployees, serviceId, date, startTime, endTime, dayOfWeek)

\* one round of the assignment loop of create(): the employee for one service
\* booking at currentTime, or the error thrown
assignEmployee(booking, allEmployees, date, currentTime, dayOfWeek) ==
  LET serviceEndTime == calculateEndTime(currentTime, services[booking.serviceId].duration)
  IN  IF booking.employeeId # None
      THEN IF booking.employeeId \notin DOMAIN employees \cup OtherSalonEmployees
           THEN [outcome |-> "NotFound", employeeId |-> None]
           ELSE IF booking.employeeId \in OtherSalonEmployees
           THEN [outcome |-> "BadRequest", employeeId |-> None]
           ELSE IF ~exists(booking.employeeId, booking.serviceId)
           THEN [outcome |-> "BadRequest", employeeId |-> None]
           ELSE IF ~validateEmployeeAvailability(booking.employeeId, date, currentTime,
                                                 serviceEndTime, dayOfWeek)
           THEN [outcome |-> "Conflict", employeeId |-> None]
           ELSE [outcome |-> "ok", employeeId |-> booking.employeeId]
      ELSE LET foundEmployee == findAvailableEmployee(allEmployees, booking.serviceId, date,
                                                      currentTime, serviceEndTime, dayOfWeek)
           IN  IF foundEmployee = None
               THEN [outcome |-> "Conflict", employeeId |-> None]
               ELSE [outcome |-> "ok", employeeId |-> foundEmployee]

\* validateAppointmentDateTime: the checks of the booking instant against the
\* clock (no method of the service calls it)
validateAppointmentDateTime(salonRow, appointmentDate, startTime, clock) ==
  LET appointmentDateTime == appointmentDate * 1440 + parseTime(startTime)
  IN  IF appointmentDateTime < clock THEN "InThePast"
      ELSE IF appointmentDateTime - clock < salonRow.minAdvanceBookingHours * 60 THEN "TooSoon"
      ELSE IF appointmentDateTime - clock > salonRow.maxAdvanceBookingDays * 1440 THEN "TooFarAhead"
      ELSE "ok"

\* the serviceAssignments entry with the end time left at the start time
assignmentWithoutDuration(booking, employeeId, currentTime, i) ==
  [serviceId  |-> booking.serviceId,
   employeeId |-> employeeId,
   duration   |-> services[booking.serviceId].duration,
   price      |-> services[booking.serviceId].price,
   startTime  |-> currentTime,
   endTime    |-> currentTime,
   orderIndex |-> i - 1]

\* the serviceAssignments entry pushed for service booking i
assignment(booking, employeeId, currentTime, i) ==
  [serviceId  |-> booking.serviceId,
   employeeId |-> employeeId,
   duration   |-> services[booking.serviceId].duration,
   price      |-> services[booking.serviceId].price,
   startTime  |-> currentTime,
   endTime    |-> calculateEndTime(currentTime, services[booking.serviceId].duration),
   orderIndex |-> i - 1]

\* the assignment loop of create(); orders[i] is the order in which round i
\* gets the employees from findBySalonId
RECURSIVE planFrom(_, _, _, _, _)
planFrom(i, currentTime, serviceAssignments, req, orders) ==
  IF i > Len(req.services) THEN [outcome |-> "ok", serviceAssignments |-> serviceAssignments]
  ELSE LET booking == req.services[i]
           a == assignEmployee(booking, orders[i], req.appointmentDate, currentTime,
                               DayOfWeek(req.appointmentDate))
       IN  IF a.outcome # "ok"
           THEN [outcome |-> a.outcome, serviceAssignments |-> serviceAssignments]
           ELSE LET entry == assignment(booking, a.employeeId, currentTime, i)
                IN  planFrom(i + 1, entry.endTime, Append(serviceAssignments, entry),
                             req, orders)

RECURSIVE SumDurations(_, _)
SumDurations(serviceBookings, i) ==
  IF i > Len(serviceBookings) THEN 0
  ELSE services[serviceBookings[i].serviceId].duration + SumDurations(serviceBookings, i + 1)

\* the NewAppointment row with the two initial statuses exchanged
newAppointmentSwapped(req) ==
  [appointmentDate |-> req.appointmentDate,
   startTime       |-> req.startTime,
   endTime         |-> calculateEndTime(req.startTime, SumDurations(req.services, 1)),
   totalDuration   |-> SumDurations(req.services, 1),
   status          |-> IF salon.requireBookingApproval THEN "confirmed" ELSE "pending"]

\* the NewAppointment row of create()
newAppointment(req) ==
  [appointmentDate |-> req.appointmentDate,
   startTime       |-> req.startTime,
   endTime         |-> calculateEndTime(req.startTime, SumDurations(req.services, 1)),
   totalDuration   |-> SumDurations(req.services, 1),
   status          |-> IF salon.requireBookingApproval THEN "pending" ELSE "confirmed"]

\* the NewAppointmentService rows of create()
appointmentServiceData(appointmentId, serviceAssignments) ==
  [i \in DOMAIN serviceAssignments |->
     [appointmentId |-> appointmentId,
      serviceId     |-> serviceAssignments[i].serviceId,
      employeeId    |-> serviceAssignments[i].employeeId,
      duration      |-> serviceAssignments[i].duration,
      price         |-> serviceAssignments[i].price,
      startTime     |-> serviceAssignments[i].startTime,
      endTime       |-> serviceAssignments[i].endTime,
      orderIndex    |-> serviceAssignments[i].orderIndex]]

\* appointment_services has primary key (appointmentId, serviceId): the INSERT
\* of createMany is rejected as a whole when two rows share the key
violatesPrimaryKey(rows, table) ==
  \/ \E i, j \in DOMAIN rows :
       i # j /\ rows[i].appointmentId = rows[j].appointmentId /\ rows[i].serviceId = rows[j].serviceId
  \/ \E i \in DOMAIN rows : \E r \in table :
       r.appointmentId = rows[i].appointmentId /\ r.serviceId = rows[i].serviceId

ServiceBookings == [serviceId : Services, employeeId : Employees \cup {None}]

Requests ==
  [services : UNION {[1..n -> ServiceBookings] : n \in ServiceCounts},
   appointmentDate : Dates,
   startTime : StartTimes]

NoRequest == [services |-> <<>>, appointmentDate |-> 0, startTime |-> <<0, 0>>]

IdleProc ==
  [pc |-> "idle", req |-> NoRequest, i |-> 0, currentTime |-> <<0, 0>>,
   serviceAssignments |-> <<>>, appointmentId |-> 0, outcome |-> None]

\* create(): validation and planning against the stored rows, then the two inserts
Create(req, orders) ==
  /\ nextId \in AppointmentIds
  /\ LET p == planFrom(1, req.startTime, <<>>, req, orders)
         rows == appointmentServiceData(nextId, p.serviceAssignments)
     IN  IF p.outcome # "ok"
         THEN UNCHANGED <<appointments, appointmentServices, nextId>>
         ELSE /\ appointments' = appointments @@ (nextId :> newAppointment(req))
              /\ nextId' = nextId + 1
              /\ IF violatesPrimaryKey(rows, appointmentServices)
                 THEN UNCHANGED appointmentServices
                 ELSE appointmentServices' =
                        appointmentServices \cup {rows[i] : i \in DOMAIN rows}
  /\ UNCHANGED <<salon, services, employees, schedules, scheduleCalls, nextScheduleId, now, procs, query, slots>>

----------------------------------------------------------------------------
(* AppointmentsService: status operations *)

\* findOne() throws NotFound for an unknown id
UpdateStatus(id, status) ==
  /\ IF id \notin DOMAIN appointments
     THEN UNCHANGED appointments
     ELSE appointments' = [appointments EXCEPT ![id].status = status]
  /\ UNCHANGED <<salon, services, employees, schedules, scheduleCalls, nextScheduleId, appointmentServices, nextId, now, procs, query, slots>>

Cancel(id) == UpdateStatus(id, "cancelled")

UpdateDtos == [status : Statuses \cup {None}, changesDateTime : BOOLEAN]

Update(id, dto) ==
  /\ IF id \notin DOMAIN appointments
     THEN UNCHANGED appointments
     ELSE IF dto.changesDateTime
     THEN UNCHANGED appointments
     ELSE appointments' =
            IF dto.status = None THEN appointments
            ELSE [appointments EXCEPT ![id].status = dto.status]
  /\ UNCHANGED <<salon, services, employees, schedules, scheduleCalls, nextScheduleId, appointmentServices, nextId, now, procs, query, slots>>

\* remove(): the appointment_services rows go with the appointment (ON DELETE CASCADE)
Remove(id) ==
  /\ IF id \notin DOMAIN appointments
     THEN UNCHANGED <<appointments, appointmentServices>>
     ELSE /\ appointments' = [a \in DOMAIN appointments \ {id} |-> appointments[a]]
          /\ appointmentServices' = {r \in appointmentServices : r.appointmentId # id}
  /\ UNCHANGED <<salon, services, employees, schedules, scheduleCalls, nextScheduleId, nextId, now, procs, query, slots>>

----------------------------------------------------------------------------
(* ServicesService: catalog edits *)

validateServiceDuration(duration) ==
  ~(duration < 5) /\ ~(duration > 480) /\ duration % 5 = 0

validateServicePrice(price) == ~(price <= 0) /\ ~(price > 9999999)

\* UpdateServiceDto: every field is optional
UpdateServiceDtos ==
  {[duration |-> d] : d \in {22, 25}} \cup {[price |-> p] : p \in {60}}
    \cup [duration : {22, 25}, price : {60}]

provided(updateServiceDto, field) == field \in DOMAIN updateServiceDto

\* update() that also rewrites the duration and price of the rows already booked
UpdateServiceRetroactive(id, updateServiceDto) ==
  /\ IF \/ (provided(updateServiceDto, "duration") /\ ~validateServiceDuration(updateServiceDto.duration))
        \/ (provided(updateServiceDto, "price") /\ ~validateServicePrice(updateServiceDto.price))
     THEN UNCHANGED <<services, appointmentServices>>
     ELSE LET duration == IF ~provided(updateServiceDto, "duration") THEN services[id].duration
                          ELSE updateServiceDto.duration
              price    == IF ~provided(updateServiceDto, "price") THEN services[id].price
                          ELSE updateServiceDto.price
          IN  /\ services' = [services EXCEPT ![id].duration = duration, ![id].price = price]
              /\ appointmentServices' =
                   {IF r.serviceId = id
                    THEN [r EXCEPT !.duration = duration, !.price = price]
                    ELSE r : r \in appointmentServices}
  /\ UNCHANGED <<salon, employees, schedules, scheduleCalls, nextScheduleId, appointments, nextId, now, procs, query, slots>>

\* update(): the validated fields of the DTO are written to the services row
UpdateService(id, updateServiceDto) ==
  /\ IF \/ (provided(updateServiceDto, "duration") /\ ~validateServiceDuration(updateServiceDto.duration))
        \/ (provided(updateServiceDto, "price") /\ ~validateServicePrice(updateServiceDto.price))
     THEN UNCHANGED services
     ELSE services' = [services EXCEPT
            ![id].duration = IF ~provided(updateServiceDto, "duration") THEN services[id].duration
                             ELSE updateServiceDto.duration,
            ![id].price    = IF ~provided(updateServiceDto, "price") THEN services[id].price
                             ELSE updateServiceDto.price]
  /\ UNCHANGED <<salon, employees, schedules, scheduleCalls, nextScheduleId, appointments, appointmentServices, nextId, now,
                 procs, query, slots>>

----------------------------------------------------------------------------
(* Environment *)

\* SalonsService.update of the approval setting
UpdateSalon(requireBookingApproval) ==
  /\ salon' = [salon EXCEPT !.requireBookingApproval = requireBookingApproval]
  /\ UNCHANGED <<services, employees, schedules, scheduleCalls, nextScheduleId, appointments, appointmentServices, nextId, now,
                 procs, query, slots>>

\* an hour passes
Tick ==
  /\ now < InitialNow + MaxTicks * 60
  /\ now' = now + 60
  /\ UNCHANGED <<salon, services, employees, schedules, scheduleCalls, nextScheduleId, appointments, appointmentServices, nextId,
                 procs, query, slots>>

----------------------------------------------------------------------------
(* Initial state: the salon with its default configuration, the employees' *)
(* work schedules, no appointment                                          *)

\* salon_operating_hours: no row for Saturday, closed on Sunday, 07:00-12:00
\* on Tuesday, 07:00-22:00 on the other days
salonOperatingHours ==
  [d \in 0..5 |-> [startTime |-> <<7, 0>>,
                   endTime   |-> IF d = 2 THEN <<12, 0>> ELSE <<22, 0>>,
                   closed    |-> (d = 0)]]

IdleScheduleCall == [pc |-> "idle", id |-> 0, dto |-> <<>>, employeeId |-> "", i |-> 0]

InitialSchedules ==
  {[id |-> 1, employeeId |-> "e1", dayOfWeek |-> 1, startTime |-> <<9, 0>>,
    endTime |-> <<11, 0>>, isAvailable |-> TRUE],
   [id |-> 2, employeeId |-> "e1", dayOfWeek |-> 2, startTime |-> <<7, 30>>,
    endTime |-> <<9, 30>>, isAvailable |-> TRUE],
   [id |-> 3, employeeId |-> "e2", dayOfWeek |-> 1, startTime |-> <<9, 0>>,
    endTime |-> <<11, 0>>, isAvailable |-> TRUE]}

NoQuery ==
  [startTime |-> <<0, 0>>, endTime |-> <<0, 0>>, interval |-> 1, duration |-> 1, busy |-> {}]

InitStore ==
  /\ salon = [requireBookingApproval |-> FALSE, defaultSlotInterval |-> 10,
              minAdvanceBookingHours |-> 2, maxAdvanceBookingDays |-> 90]
  /\ services = [s \in Services \cup OtherSalonServices |->
                   [salonId  |-> IF s \in Services THEN "salon1" ELSE "salon2",
                    duration |-> ServiceDuration[s],
                    price    |-> ServicePrice[s]]]
  /\ employees = [e \in Employees |-> [isActive |-> TRUE]]
  /\ schedules = InitialSchedules
  /\ scheduleCalls = [p \in Procs |-> IdleScheduleCall]
  /\ nextScheduleId = Cardinality(InitialSchedules) + 1
  /\ appointments = <<>>
  /\ appointmentServices = {}
  /\ nextId = 1
  /\ now = InitialNow
  /\ procs = [p \in Procs |-> IdleProc]

Init ==
  /\ InitStore
  /\ query = NoQuery
  /\ slots = <<>>

Next ==
  \/ \E req \in Requests, orders \in [ServiceCounts -> EmployeeOrders] : Create(req, orders)
  \/ \E id \in AppointmentIds, status \in Statuses : UpdateStatus(id, status)
  \/ \E id \in AppointmentIds : Cancel(id)
  \/ \E id \in AppointmentIds, dto \in UpdateDtos : Update(id, dto)
  \/ \E id \in AppointmentIds : Remove(id)
  \/ \E b \in BOOLEAN : UpdateSalon(b)
  \/ Tick

Spec == Init /\ [][Next]_vars

----------------------------------------------------------------------------
(* create() as it runs: every await is a point where another call may run *)

\* steps 1-2: the salon and the services are loaded, the loop starts
CreateBegin(p, req) ==
  /\ procs[p].pc = "idle"
  /\ procs' = [procs EXCEPT ![p] =
       [IdleProc EXCEPT !.pc = "plan", !.req = req, !.i = 1, !.currentTime = req.startTime]]
  /\ UNCHANGED <<salon, services, employees, schedules, scheduleCalls, nextScheduleId, appointments, appointmentServices, nextId, now, query, slots>>

\* step 3: one round of the assignment loop, reading the rows stored now
CreatePlan(p, allEmployees) ==
  /\ procs[p].pc = "plan"
  /\ LET pr      == procs[p]
         booking == pr.req.services[pr.i]
         a       == assignEmployee(booking, allEmployees, pr.req.appointmentDate,
                                   pr.currentTime, DayOfWeek(pr.req.appointmentDate))
         entry   == assignment(booking, a.employeeId, pr.currentTime, pr.i)
     IN  procs' = [procs EXCEPT ![p] =
           IF a.outcome # "ok"
           THEN [pr EXCEPT !.pc = "done", !.outcome = a.outcome]
           ELSE [pr EXCEPT !.pc = IF pr.i = Len(pr.req.services) THEN "insertAppointment" ELSE "plan",
                           !.i = pr.i + 1,
                           !.currentTime = entry.endTime,
                           !.serviceAssignments = Append(pr.serviceAssignments, entry)]]
  /\ UNCHANGED <<salon, services, employees, schedules, scheduleCalls, nextScheduleId, appointments, appointmentServices, nextId, now, query, slots>>

\* step 5: appointmentsRepository.create
CreateInsertAppointment(p) ==
  /\ procs[p].pc = "insertAppointment"
  /\ nextId \in AppointmentIds
  /\ appointments' = appointments @@ (nextId :> newAppointment(procs[p].req))
  /\ nextId' = nextId + 1
  /\ procs' = [procs EXCEPT ![p].pc = "insertServices", ![p].appointmentId = nextId]
  /\ UNCHANGED <<salon, services, employees, schedules, scheduleCalls, nextScheduleId, appointmentServices, now, query, slots>>

\* step 6: appointmentServicesRepository.createMany
CreateInsertServices(p) ==
  /\ procs[p].pc = "insertServices"
  /\ LET rows == appointmentServiceData(procs[p].appointmentId, procs[p].serviceAssignments)
     IN  IF violatesPrimaryKey(rows, appointmentServices)
         THEN /\ procs' = [procs EXCEPT ![p].pc = "done", ![p].outcome = "InternalError"]
              /\ UNCHANGED appointmentServices
         ELSE /\ procs' = [procs EXCEPT ![p].pc = "done", ![p].outcome = "ok"]
              /\ appointmentServices' = appointmentServices \cup {rows[i] : i \in DOMAIN rows}
  /\ UNCHANGED <<salon, services, employees, schedules, scheduleCalls, nextScheduleId, appointments, nextId, now, query, slots>>

\* the calls that run concurrently
ConcurrentRequests == Requests

NextConc ==
  \/ \E p \in Procs, req \in ConcurrentRequests : CreateBegin(p, req)
  \/ \E p \in Procs, allEmployees \in EmployeeOrders : CreatePlan(p, allEmployees)
  \/ \E p \in Procs : CreateInsertAppointment(p)
  \/ \E p \in Procs : CreateInsertServices(p)

SpecConc == Init /\ [][NextConc]_vars

----------------------------------------------------------------------------
(* The slot calculation on its own: any window, interval, duration and     *)
(* occupied ranges                                                         *)

TimePoints == {formatTime(9 * 60 + 45 + 5 * k) : k \in 0..MaxK}

TimeRanges == {r \in [startTime : TimePoints, endTime : TimePoints] :
                 parseTime(r.startTime) < parseTime(r.endTime)}

RECURSIVE RangeSets(_)
RangeSets(n) ==
  IF n = 0 THEN {{}}
  ELSE LET smaller == RangeSets(n - 1)
       IN  smaller \cup {rs \cup {r} : rs \in smaller, r \in TimeRanges}

Intervals == {5, 10}
Durations == {5, 10, 15}

Queries ==
  {[startTime |-> w.startTime, endTime |-> w.endTime, interval |-> g, duration |-> d, busy |-> b] :
     w \in TimeRanges, g \in Intervals, d \in Durations, b \in RangeSets(MaxBusy)}

InitSlots ==
  /\ InitStore
  /\ query \in Queries
  /\ slots = <<>>

ComputeSlots ==
  /\ slots = <<>>
  /\ query \in Queries
  /\ slots' = <<[allSlots   |-> generateTimeSlots(query.startTime, query.endTime, query.interval),
                 validSlots |-> validSlots(query, query.busy, query.duration, query.interval)]>>
  /\ UNCHANGED <<salon, services, employees, schedules, scheduleCalls, nextScheduleId, appointments, appointmentServices, nextId, now, procs, query>>

SpecSlots == InitSlots /\ [][ComputeSlots]_vars

----------------------------------------------------------------------------
(* The overlap test on its own: any two pairs of times *)

AnyRanges == [start : TimePoints, end : TimePoints]

InitOverlap ==
  /\ InitStore
  /\ query \in [a : AnyRanges, b : AnyRanges]
  /\ slots = <<>>

ComputeOverlap ==
  /\ slots = <<>>
  /\ query \in [a : AnyRanges, b : AnyRanges]
  /\ slots' = <<[ab |-> doTimeRangesOverlap(query.a, query.b),
                 ba |-> doTimeRangesOverlap(query.b, query.a),
                 inline |-> slotOverlapsExisting(parseTime(query.a.start), parseTime(query.a.end),
                                                 parseTime(query.b.start), parseTime(query.b.end))]>>
  /\ UNCHANGED <<salon, services, employees, schedules, scheduleCalls, nextScheduleId, appointments, appointmentServices, nextId, now, procs, query>>

SpecOverlap == InitOverlap /\ [][ComputeOverlap]_vars

----------------------------------------------------------------------------
(* AppointmentsService: the availability query on the stored rows *)

canPerformAll(employeeId, serviceIds) ==
  \A i \in DOMAIN serviceIds : exists(employeeId, serviceIds[i])

\* findEmployeesForServices: the active employees who can perform all the
\* services, in the order findBySalonId gives them
findEmployeesForServices(allEmployees, serviceIds) ==
  LET Qualified(e) == employees[e].isActive /\ canPerformAll(e, serviceIds)
  IN  SelectSeq(allEmployees, Qualified)

\* calculateEmployeeAvailableSlots without the filter on the status of the
\* bookings: every booking of the employee on the date occupies its time
calculateEmployeeAvailableSlotsAnyStatus(employeeId, serviceIds, totalDuration, date, dayOfWeek, slotInterval) ==
  IF employeeId \notin DOMAIN employees THEN <<>>
  ELSE IF ~canPerformAll(employeeId, serviceIds) THEN <<>>
  ELSE LET found == findByEmployeeAndDay(employeeId, dayOfWeek)
       IN  IF found = {} \/ (\E s \in found : ~s.isAvailable)
           THEN <<[employeeId |-> employeeId, availableSlots |-> <<>>]>>
           ELSE LET schedule == CHOOSE s \in found : TRUE
                    booked   == findByEmployeeAndDateWithStatus(employeeId, date, Statuses)
                    occupiedRanges ==
                      {[startTime |-> item.startTime, endTime |-> item.endTime] : item \in booked}
                IN  <<[employeeId     |-> employeeId,
                       availableSlots |-> validSlots(schedule, occupiedRanges,
                                                     totalDuration, slotInterval)]>>

\* calculateEmployeeAvailableSlots: <<>> for null (the employee is skipped),
\* otherwise the employee's entry of the result
calculateEmployeeAvailableSlots(employeeId, serviceIds, totalDuration, date, dayOfWeek, slotInterval) ==
  IF employeeId \notin DOMAIN employees THEN <<>>
  ELSE IF ~canPerformAll(employeeId, serviceIds) THEN <<>>
  ELSE LET found == findByEmployeeAndDay(employeeId, dayOfWeek)
       IN  IF found = {} \/ (\E s \in found : ~s.isAvailable)
           THEN <<[employeeId |-> employeeId, availableSlots |-> <<>>]>>
           ELSE LET schedule == CHOOSE s \in found : TRUE
                    activeAppointmentServices ==
                      findByEmployeeAndDateWithStatus(employeeId, date, ActiveStatuses)
                    occupiedRanges ==
                      {[startTime |-> item.startTime, endTime |-> item.endTime] :
                         item \in activeAppointmentServices}
                IN  <<[employeeId     |-> employeeId,
                       availableSlots |-> validSlots(schedule, occupiedRanges,
                                                     totalDuration, slotInterval)]>>

RECURSIVE totalDurationOf(_, _)
totalDurationOf(serviceIds, i) ==
  IF i > Len(serviceIds) THEN 0
  ELSE services[serviceIds[i]].duration + totalDurationOf(serviceIds, i + 1)

RECURSIVE employeeResults(_, _, _, _, _, _)
employeeResults(k, targetEmployeeIds, serviceIds, totalDuration, date, slotInterval) ==
  IF k > Len(targetEmployeeIds) THEN <<>>
  ELSE calculateEmployeeAvailableSlots(targetEmployeeIds[k], serviceIds, totalDuration,
                                       date, DayOfWeek(date), slotInterval)
       \o employeeResults(k + 1, targetEmployeeIds, serviceIds, totalDuration, date, slotInterval)

\* getAvailableTimeSlots: one entry per employee considered, in order
\* step 1 of getAvailableTimeSlots: the exception thrown while the services
\* are loaded, "" for none
RECURSIVE loadServicesError(_, _, _)
loadServicesError(i, serviceIds, salonId) ==
  IF i > Len(serviceIds)
  THEN IF totalDurationOf(serviceIds, 1) = 0 THEN "BadRequest"
       ELSE IF salonId = "" THEN "BadRequest"
       ELSE ""
  ELSE IF serviceIds[i] \notin DOMAIN services THEN "NotFound"
  ELSE IF salonId # "" /\ services[serviceIds[i]].salonId # salonId THEN "BadRequest"
  ELSE loadServicesError(i + 1, serviceIds, services[serviceIds[i]].salonId)

getAvailableTimeSlots(employeeIds, serviceIds, date, allEmployees) ==
  LET totalDuration == totalDurationOf(serviceIds, 1)
      slotInterval  == IF salon.defaultSlotInterval = 0 THEN 10 ELSE salon.defaultSlotInterval
      targetEmployeeIds ==
        IF Len(employeeIds) > 0 THEN employeeIds
        ELSE findEmployeesForServices(allEmployees, serviceIds)
  IN  employeeResults(1, targetEmployeeIds, serviceIds, totalDuration, date, slotInterval)

ServiceIdLists == UNION {[1..n -> Services] : n \in ServiceCounts}

SlotQueries ==
  [employeeIds : {<<>>} \cup {<<e>> : e \in Employees},
   serviceIds  : ServiceIdLists,
   date        : Dates]

\* what the availability of an employee on a date is computed from: the
\* working window and the intervals of the active bookings
Window(employeeId, date) ==
  {[startTime |-> s.startTime, endTime |-> s.endTime] :
     s \in {x \in schedules : /\ x.employeeId = employeeId
                              /\ x.dayOfWeek = DayOfWeek(date)
                              /\ x.isAvailable}}

Occupancy(employeeId, date) ==
  {[startTime |-> r.startTime, endTime |-> r.endTime] :
     r \in {x \in appointmentServices : /\ x.employeeId = employeeId
                                        /\ x.appointmentId \in DOMAIN appointments
                                        /\ appointments[x.appointmentId].status \in ActiveStatuses
                                        /\ appointments[x.appointmentId].appointmentDate = date}}

Targets(q) ==
  IF Len(q.employeeIds) > 0 THEN {q.employeeIds[i] : i \in DOMAIN q.employeeIds} ELSE Employees

QueryInputs(q) ==
  [window    |-> [e \in Targets(q) |-> Window(e, q.date)],
   occupancy |-> [e \in Targets(q) |-> Occupancy(e, q.date)],
   duration  |-> totalDurationOf(q.serviceIds, 1)]

\* GET /appointments/available-slots: the query runs on the rows stored now;
\* the answer is kept with a record of what it was computed from
GetAvailableTimeSlots(q, allEmployees) ==
  /\ slots = <<>>
  /\ query' = q
  /\ slots' = <<IF loadServicesError(1, q.serviceIds, "") # ""
                 THEN [error   |-> loadServicesError(1, q.serviceIds, ""),
                       results |-> <<>>,
                       inputs  |-> <<>>]
                 ELSE [error   |-> "",
                       results |-> getAvailableTimeSlots(q.employeeIds, q.serviceIds, q.date,
                                                         allEmployees),
                       inputs  |-> QueryInputs(q)]>>
  /\ UNCHANGED <<salon, services, employees, schedules, scheduleCalls, nextScheduleId, appointments, appointmentServices,
                 nextId, now, procs>>

\* bookings at a start on the 10-minute grid of the working hours and at one off it
\* the response is sent
ReturnSlots ==
  /\ slots # <<>>
  /\ query' = NoQuery
  /\ slots' = <<>>
  /\ UNCHANGED <<salon, services, employees, schedules, scheduleCalls, nextScheduleId, appointments, appointmentServices,
                 nextId, now, procs>>

OfferStartTimes == {<<9, 0>>, <<9, 5>>}

\* the bookings made while availability is queried: one service each, day 1
OfferRequests ==
  [services : [1..1 -> ServiceBookings],
   appointmentDate : {1},
   startTime : OfferStartTimes]

NextOffer ==
  \/ \E req \in OfferRequests, orders \in [1..1 -> EmployeeOrders] : Create(req, orders)
  \/ \E id \in AppointmentIds, status \in Statuses : UpdateStatus(id, status)
  \/ \E q \in SlotQueries, allEmployees \in EmployeeOrders : GetAvailableTimeSlots(q, allEmployees)
  \/ ReturnSlots

SpecOffer == Init /\ [][NextOffer]_vars

----------------------------------------------------------------------------
(* Bookings while the catalog is edited *)

CatalogRequests == {req \in Requests : req.appointmentDate = 1}

NextCatalog ==
  \/ \E req \in CatalogRequests, orders \in [ServiceCounts -> EmployeeOrders] : Create(req, orders)
  \/ \E id \in Services, dto \in UpdateServiceDtos : UpdateService(id, dto)

SpecCatalog == Init /\ [][NextCatalog]_vars

----------------------------------------------------------------------------
(* EmployeesService: the working windows *)

calculateDuration(startTime, endTime) == parseTime(endTime) - parseTime(startTime)

validateScheduleTimes(schedule) ==
  LET start    == parseTime(schedule.startTime)
      end      == parseTime(schedule.endTime)
      duration == calculateDuration(schedule.startTime, schedule.endTime)
  IN  IF start >= end
      THEN [valid |-> FALSE, error |-> "Start time must be before end time"]
      ELSE IF duration < 120
      THEN [valid |-> FALSE, error |-> "Shift must be at least 2 hours long"]
      ELSE IF duration > 720
      THEN [valid |-> FALSE, error |-> "Shift cannot exceed 12 hours"]
      ELSE [valid |-> TRUE, error |-> ""]

\* the checks against salon_operating_hours that follow validateScheduleTimes
salonHoursError(dayOfWeek, startTime, endTime) ==
  IF dayOfWeek \notin DOMAIN salonOperatingHours
  THEN "Salon has no operating hours defined for day"
  ELSE LET salonHours == salonOperatingHours[dayOfWeek]
       IN  IF salonHours.closed THEN "Salon is closed on day"
           ELSE IF parseTime(startTime) < parseTime(salonHours.startTime)
           THEN "Employee start time is before salon opens"
           ELSE IF parseTime(endTime) > parseTime(salonHours.endTime)
           THEN "Employee end time is after salon closes"
           ELSE ""

withinSalonHours(dayOfWeek, startTime, endTime) ==
  salonHoursError(dayOfWeek, startTime, endTime) = ""

\* detectScheduleConflicts that does not skip the schedule being updated
detectScheduleConflictsNoSkip(newSchedule, existingSchedules) ==
  \E existing \in existingSchedules :
    /\ existing.dayOfWeek = newSchedule.dayOfWeek
    /\ doTimeRangesOverlap([start |-> newSchedule.startTime, end |-> newSchedule.endTime],
                           [start |-> existing.startTime, end |-> existing.endTime])

\* hasConflicts of detectScheduleConflicts; id 0 stands for undefined
detectScheduleConflicts(newSchedule, existingSchedules) ==
  \E existing \in existingSchedules :
    /\ existing.dayOfWeek = newSchedule.dayOfWeek
    /\ ~(existing.id # 0 /\ newSchedule.id # 0 /\ existing.id = newSchedule.id)
    /\ doTimeRangesOverlap([start |-> newSchedule.startTime, end |-> newSchedule.endTime],
                           [start |-> existing.startTime, end |-> existing.endTime])

findByEmployeeId(employeeId) == {s \in schedules : s.employeeId = employeeId}

\* a window that passes, one too long, one with start = end
ScheduleWindows ==
  {[startTime |-> <<9, 0>>, endTime |-> <<11, 0>>],
   [startTime |-> <<9, 0>>, endTime |-> <<22, 0>>],
   [startTime |-> <<11, 0>>, endTime |-> <<11, 0>>]}

ScheduleEntries(days) ==
  {[dayOfWeek |-> d, startTime |-> w.startTime, endTime |-> w.endTime] :
     d \in days, w \in ScheduleWindows}

\* CreateEmployeeDto.workSchedule
WorkSchedules == UNION {[1..n -> ScheduleEntries({1, 2})] : n \in 1..2}

CreateScheduleDtos == ScheduleEntries({0, 2, 6})

\* UpdateScheduleDto: every field is optional
UpdateScheduleDtos ==
  {[startTime |-> t] : t \in {<<9, 0>>, <<11, 0>>}}
    \cup {[endTime |-> t] : t \in {<<11, 0>>, <<13, 0>>}}
    \cup {[startTime |-> <<9, 0>>, endTime |-> <<11, 0>>]}
    \cup {[dayOfWeek |-> 2]}

\* the employee_schedules row inserted for an entry
newSchedule(id, employeeId, entry) ==
  [id |-> id, employeeId |-> employeeId, dayOfWeek |-> entry.dayOfWeek,
   startTime |-> entry.startTime, endTime |-> entry.endTime,
   isAvailable |-> IF provided(entry, "isAvailable") THEN entry.isAvailable ELSE TRUE]

\* EmployeesService.create: the employee and one schedule row per entry of
\* workSchedule, after every entry passed the checks
CreateEmployee(employeeId, workSchedule) ==
  /\ employeeId \notin DOMAIN employees
  /\ IF \/ Len(workSchedule) = 0
        \/ \E i \in DOMAIN workSchedule :
             \/ ~validateScheduleTimes(workSchedule[i]).valid
             \/ ~withinSalonHours(workSchedule[i].dayOfWeek, workSchedule[i].startTime,
                                  workSchedule[i].endTime)
        \/ \E i, j \in DOMAIN workSchedule :
             i # j /\ workSchedule[i].dayOfWeek = workSchedule[j].dayOfWeek
     THEN UNCHANGED <<employees, schedules, nextScheduleId>>
     ELSE /\ nextScheduleId + Len(workSchedule) <= MaxScheduleId + 1
          /\ employees' = [e \in DOMAIN employees \cup {employeeId} |->
                             IF e = employeeId THEN [isActive |-> TRUE] ELSE employees[e]]
          /\ schedules' = schedules \cup
               {newSchedule(nextScheduleId + i - 1, employeeId, workSchedule[i]) :
                  i \in DOMAIN workSchedule}
          /\ nextScheduleId' = nextScheduleId + Len(workSchedule)
  /\ UNCHANGED <<salon, services, scheduleCalls, appointments, appointmentServices, nextId, now,
                 procs, query, slots>>

\* EmployeesService.createSchedule
CreateSchedule(employeeId, createScheduleDto) ==
  /\ employeeId \in DOMAIN employees
  /\ IF \/ ~validateScheduleTimes(createScheduleDto).valid
        \/ ~withinSalonHours(createScheduleDto.dayOfWeek, createScheduleDto.startTime,
                             createScheduleDto.endTime)
        \/ findByEmployeeAndDay(employeeId, createScheduleDto.dayOfWeek) # {}
        \/ detectScheduleConflicts([id |-> 0, dayOfWeek |-> createScheduleDto.dayOfWeek,
                                    startTime |-> createScheduleDto.startTime,
                                    endTime |-> createScheduleDto.endTime],
                                   findByEmployeeId(employeeId))
     THEN UNCHANGED <<schedules, nextScheduleId>>
     ELSE /\ nextScheduleId <= MaxScheduleId
          /\ schedules' = schedules \cup
               {newSchedule(nextScheduleId, employeeId, createScheduleDto)}
          /\ nextScheduleId' = nextScheduleId + 1
  /\ UNCHANGED <<salon, services, employees, scheduleCalls, appointments, appointmentServices,
                 nextId, now, procs, query, slots>>

\* updatedScheduleData of updateSchedule: the DTO over the row that was read
updatedScheduleData(existingSchedule, updateScheduleDto) ==
  [id        |-> existingSchedule.id,
   dayOfWeek |-> IF provided(updateScheduleDto, "dayOfWeek") THEN updateScheduleDto.dayOfWeek
                 ELSE existingSchedule.dayOfWeek,
   startTime |-> IF provided(updateScheduleDto, "startTime") THEN updateScheduleDto.startTime
                 ELSE existingSchedule.startTime,
   endTime   |-> IF provided(updateScheduleDto, "endTime") THEN updateScheduleDto.endTime
                 ELSE existingSchedule.endTime]

\* updateSchedule up to its last await: the row is read and the merged data
\* passes the checks; a call that throws ends here
UpdateScheduleBegin(p, id, updateScheduleDto) ==
  /\ scheduleCalls[p].pc = "idle"
  /\ \E existingSchedule \in schedules :
       /\ existingSchedule.id = id
       /\ LET data == updatedScheduleData(existingSchedule, updateScheduleDto)
          IN  /\ validateScheduleTimes(data).valid
              /\ withinSalonHours(data.dayOfWeek, data.startTime, data.endTime)
              /\ ~detectScheduleConflicts(data, findByEmployeeId(existingSchedule.employeeId))
  /\ scheduleCalls' = [scheduleCalls EXCEPT ![p] =
                         [pc |-> "write", id |-> id, dto |-> updateScheduleDto,
                          employeeId |-> "", i |-> 0]]
  /\ UNCHANGED <<salon, services, employees, schedules, nextScheduleId, appointments,
                 appointmentServices, nextId, now, procs, query, slots>>

\* the write of updateSchedule with no unique (employeeId, dayOfWeek) in the table
UpdateScheduleWriteNoUnique(p) ==
  /\ scheduleCalls[p].pc = "write"
  /\ LET call == scheduleCalls[p]
         Set(row) == [id          |-> row.id,
                      employeeId  |-> row.employeeId,
                      dayOfWeek   |-> updatedScheduleData(row, call.dto).dayOfWeek,
                      startTime   |-> updatedScheduleData(row, call.dto).startTime,
                      endTime     |-> updatedScheduleData(row, call.dto).endTime,
                      isAvailable |-> IF provided(call.dto, "isAvailable")
                                      THEN call.dto.isAvailable ELSE row.isAvailable]
     IN  schedules' = {IF row.id = call.id THEN Set(row) ELSE row : row \in schedules}
  /\ scheduleCalls' = [scheduleCalls EXCEPT ![p] = IdleScheduleCall]
  /\ UNCHANGED <<salon, services, employees, nextScheduleId, appointments, appointmentServices,
                 nextId, now, procs, query, slots>>

\* schedulesRepository.update(id, updateScheduleDto): the fields of the DTO
\* are set on the row; the unique (employeeId, dayOfWeek) rejects a second
\* row of the employee on a day
UpdateScheduleWrite(p) ==
  /\ scheduleCalls[p].pc = "write"
  /\ LET call == scheduleCalls[p]
         Set(row) == [id          |-> row.id,
                      employeeId  |-> row.employeeId,
                      dayOfWeek   |-> updatedScheduleData(row, call.dto).dayOfWeek,
                      startTime   |-> updatedScheduleData(row, call.dto).startTime,
                      endTime     |-> updatedScheduleData(row, call.dto).endTime,
                      isAvailable |-> IF provided(call.dto, "isAvailable")
                                      THEN call.dto.isAvailable ELSE row.isAvailable]
         written == {IF row.id = call.id THEN Set(row) ELSE row : row \in schedules}
     IN  IF \E r1, r2 \in written :
              r1.id # r2.id /\ r1.employeeId = r2.employeeId /\ r1.dayOfWeek = r2.dayOfWeek
         THEN UNCHANGED schedules
         ELSE schedules' = written
  /\ scheduleCalls' = [scheduleCalls EXCEPT ![p] = IdleScheduleCall]
  /\ UNCHANGED <<salon, services, employees, nextScheduleId, appointments, appointmentServices,
                 nextId, now, procs, query, slots>>

\* EmployeesService.removeSchedule
RemoveSchedule(id) ==
  /\ schedules' = {row \in schedules : row.id # id}
  /\ UNCHANGED <<salon, services, employees, scheduleCalls, nextScheduleId, appointments,
                 appointmentServices, nextId, now, procs, query, slots>>

NewEmployees == {"e3"}

NextSchedule ==
  \/ \E employeeId \in NewEmployees, workSchedule \in WorkSchedules :
       CreateEmployee(employeeId, workSchedule)
  \/ \E employeeId \in Employees \cup NewEmployees, dto \in CreateScheduleDtos :
       CreateSchedule(employeeId, dto)
  \/ \E p \in Procs, row \in UNION {findByEmployeeId(e) : e \in NewEmployees},
        dto \in UpdateScheduleDtos :
       UpdateScheduleBegin(p, row.id, dto)
  \/ \E p \in Procs : UpdateScheduleWrite(p)
  \/ \E row \in UNION {findByEmployeeId(e) : e \in NewEmployees} : RemoveSchedule(row.id)

SpecSchedule == Init /\ [][NextSchedule]_vars

----------------------------------------------------------------------------
(* The conflict detection on its own: a candidate against stored windows *)

ConflictTimes == {<<9, 0>>, <<11, 0>>, <<13, 0>>, <<15, 0>>}

\* ScheduleData with start before end; id 0 is a candidate not yet stored
ScheduleDatas(ids) ==
  {d \in [id : ids, dayOfWeek : {1, 2}, startTime : ConflictTimes, endTime : ConflictTimes] :
     parseTime(d.startTime) < parseTime(d.endTime)}

\* the rows of one employee: distinct ids
StoredWindowSets ==
  {{}} \cup {{r} : r \in ScheduleDatas({1, 2})}
    \cup {{r1, r2} : r1 \in ScheduleDatas({1}), r2 \in ScheduleDatas({2})}

ConflictQueries == [newSchedule : ScheduleDatas({0, 1}), existingSchedules : StoredWindowSets]

InitConflicts ==
  /\ InitStore
  /\ query \in ConflictQueries
  /\ slots = <<>>

ComputeConflicts ==
  /\ slots = <<>>
  /\ slots' = <<[hasConflicts |->
                   detectScheduleConflicts(query.newSchedule, query.existingSchedules)]>>
  /\ UNCHANGED <<salon, services, employees, schedules, scheduleCalls, nextScheduleId,
                 appointments, appointmentServices, nextId, now, procs, query>>

SpecConflicts == InitConflicts /\ [][ComputeConflicts]_vars

----------------------------------------------------------------------------
(* The availability query on any request, while windows and bookings change *)

\* requests naming a service or an employee that does not exist, and a
\* service of another salon
AnswerQueries ==
  [employeeIds : {<<>>, <<"e1">>, <<"e9">>},
   serviceIds  : {<<"s1">>, <<"s1", "s2">>, <<"s9">>, <<"s1", "s3">>},
   date        : {1}]

\* two bookings of e1 that start off the 10-minute grid of the window
AnswerRequests ==
  [services : {<<[serviceId |-> "s1", employeeId |-> "e1"],
                 [serviceId |-> "s2", employeeId |-> "e1"]>>},
   appointmentDate : {1},
   startTime : {<<9, 5>>, <<10, 5>>}]

NextAnswer ==
  \/ \E req \in AnswerRequests, orders \in [ServiceCounts -> EmployeeOrders] : Create(req, orders)
  \/ \E row \in schedules : UpdateScheduleBegin("p1", row.id, [isAvailable |-> FALSE])
  \/ UpdateScheduleWrite("p1")
  \/ \E row \in schedules : RemoveSchedule(row.id)
  \/ \E q \in AnswerQueries, allEmployees \in EmployeeOrders : GetAvailableTimeSlots(q, allEmployees)
  \/ ReturnSlots

SpecAnswer == Init /\ [][NextAnswer]_vars

----------------------------------------------------------------------------
(* EmployeesService.create as it runs: the employee row, then one schedule *)
(* row per await, and the rollback when an insert fails                    *)

HiredEmployees == {"e3", "e4"}

\* the checks of create() on the request
validWorkSchedule(workSchedule) ==
  /\ Len(workSchedule) > 0
  /\ \A i \in DOMAIN workSchedule :
       /\ validateScheduleTimes(workSchedule[i]).valid
       /\ withinSalonHours(workSchedule[i].dayOfWeek, workSchedule[i].startTime,
                           workSchedule[i].endTime)
  /\ \A i, j \in DOMAIN workSchedule :
       workSchedule[i].dayOfWeek = workSchedule[j].dayOfWeek => i = j

\* the request passed the checks and employeesRepository.create has run
CreateEmployeeBegin(p, employeeId, workSchedule) ==
  /\ scheduleCalls[p].pc = "idle"
  /\ employeeId \notin DOMAIN employees
  /\ validWorkSchedule(workSchedule)
  /\ employees' = [e \in DOMAIN employees \cup {employeeId} |->
                     IF e = employeeId THEN [isActive |-> TRUE] ELSE employees[e]]
  /\ scheduleCalls' = [scheduleCalls EXCEPT ![p] =
                         [pc |-> "insert", id |-> 0, dto |-> workSchedule,
                          employeeId |-> employeeId, i |-> 1]]
  /\ UNCHANGED <<salon, services, schedules, nextScheduleId, appointments, appointmentServices,
                 nextId, now, procs, query, slots>>

\* the insert of schedule i with the catch block left out: a failed insert
\* ends the call and leaves what was stored
CreateEmployeeInsertNoRollback(p, ok) ==
  /\ scheduleCalls[p].pc = "insert"
  /\ nextScheduleId <= MaxScheduleId
  /\ LET call  == scheduleCalls[p]
         entry == call.dto[call.i]
     IN  IF ok /\ findByEmployeeAndDay(call.employeeId, entry.dayOfWeek) = {}
         THEN /\ schedules' = schedules \cup {newSchedule(nextScheduleId, call.employeeId, entry)}
              /\ nextScheduleId' = nextScheduleId + 1
              /\ scheduleCalls' = [scheduleCalls EXCEPT ![p] =
                                     IF call.i = Len(call.dto) THEN IdleScheduleCall
                                     ELSE [call EXCEPT !.i = call.i + 1]]
              /\ UNCHANGED employees
         ELSE /\ scheduleCalls' = [scheduleCalls EXCEPT ![p] = IdleScheduleCall]
              /\ UNCHANGED <<employees, schedules, nextScheduleId>>
  /\ UNCHANGED <<salon, services, appointments, appointmentServices, nextId, now, procs,
                 query, slots>>

\* one round of the insert loop: schedulesRepository.create for entry i, which
\* fails on the unique (employeeId, dayOfWeek) or for a reason of the
\* database (ok = FALSE); the catch block then deletes the employee, and the
\* schedules of the employee go with it (onDelete cascade)
CreateEmployeeInsert(p, ok) ==
  /\ scheduleCalls[p].pc = "insert"
  /\ nextScheduleId <= MaxScheduleId
  /\ LET call  == scheduleCalls[p]
         entry == call.dto[call.i]
     IN  IF ok /\ findByEmployeeAndDay(call.employeeId, entry.dayOfWeek) = {}
         THEN /\ schedules' = schedules \cup {newSchedule(nextScheduleId, call.employeeId, entry)}
              /\ nextScheduleId' = nextScheduleId + 1
              /\ scheduleCalls' = [scheduleCalls EXCEPT ![p] =
                                     IF call.i = Len(call.dto) THEN IdleScheduleCall
                                     ELSE [call EXCEPT !.i = call.i + 1]]
              /\ UNCHANGED employees
         ELSE /\ employees' = [e \in DOMAIN employees \ {call.employeeId} |-> employees[e]]
              /\ schedules' = {row \in schedules : row.employeeId # call.employeeId}
              /\ scheduleCalls' = [scheduleCalls EXCEPT ![p] = IdleScheduleCall]
              /\ UNCHANGED nextScheduleId
  /\ UNCHANGED <<salon, services, appointments, appointmentServices, nextId, now, procs,
                 query, slots>>

NextEmployee ==
  \/ \E p \in Procs, employeeId \in HiredEmployees, workSchedule \in WorkSchedules :
       CreateEmployeeBegin(p, employeeId, workSchedule)
  \/ \E p \in Procs, ok \in BOOLEAN : CreateEmployeeInsert(p, ok)
  \/ \E employeeId \in HiredEmployees, dto \in CreateScheduleDtos :
       CreateSchedule(employeeId, dto)

SpecEmployee == Init /\ [][NextEmployee]_vars

----------------------------------------------------------------------------
(* AppointmentsService.checkAvailability *)

\* the time query parameter as it is sent: the time it denotes and whether
\* its hour is written with two digits ("09:00") or with one ("9:00")
TimeStrings ==
  {t \in [time : {<<9, 0>>, <<9, 30>>, <<10, 0>>}, padded : BOOLEAN] :
     t.time[1] >= 10 => t.padded}

\* Array.includes on the strings formatTime produced, which have two-digit hours
includes(availableSlots, startTime) ==
  \E i \in DOMAIN availableSlots : availableSlots[i] = startTime.time /\ startTime.padded

checkAvailability(employeeId, serviceId, appointmentDate, startTime, allEmployees) ==
  IF loadServicesError(1, <<serviceId>>, "") # ""
  THEN [available |-> FALSE, reason |-> loadServicesError(1, <<serviceId>>, "")]
  ELSE LET results == getAvailableTimeSlots(<<employeeId>>, <<serviceId>>, appointmentDate,
                                            allEmployees)
       IN  IF Len(results) = 0
           THEN [available |-> FALSE,
                 reason    |-> "Employee not available or cannot perform this service"]
           ELSE IF includes(results[1].availableSlots, startTime)
           THEN [available |-> TRUE, reason |-> ""]
           ELSE [available |-> FALSE, reason |-> "Time slot is not available"]

CheckQueries ==
  [employeeId : {"e1", "e2", "e9"}, serviceId : {"s1", "s2", "s9"}, date : Dates,
   startTime : TimeStrings]

\* GET /appointments/check-availability
CheckAvailability(q, allEmployees) ==
  /\ slots = <<>>
  /\ query' = q
  /\ slots' = <<checkAvailability(q.employeeId, q.serviceId, q.date, q.startTime, allEmployees)>>
  /\ UNCHANGED <<salon, services, employees, schedules, scheduleCalls, nextScheduleId,
                 appointments, appointmentServices, nextId, now, procs>>

CheckRequests ==
  [services : [1..1 -> ServiceBookings], appointmentDate : {1}, startTime : {<<9, 0>>}]

NextCheck ==
  \/ \E req \in CheckRequests, orders \in [1..1 -> EmployeeOrders] : Create(req, orders)
  \/ \E q \in CheckQueries, allEmployees \in EmployeeOrders : CheckAvailability(q, allEmployees)
  \/ ReturnSlots

SpecCheck == Init /\ [][NextCheck]_vars

----------------------------------------------------------------------------
(* The loops of the slot calculation, one iteration per step; the number   *)
(* of iterations is counted modulo MaxLoopSteps                             *)

\* the values the integer column salons.default_slot_interval is given here
SlotIntervalValues == {0 - 10, 0 - 5, 0, 5, 10, 30}

LoopInputs ==
  [window              : {[startTime |-> <<9, 0>>, endTime |-> <<11, 0>>],
                          [startTime |-> <<7, 30>>, endTime |-> <<9, 30>>]},
   range               : {[startTime |-> <<9, 0>>, endTime |-> <<9, 30>>],
                          [startTime |-> <<9, 5>>, endTime |-> <<9, 55>>]},
   defaultSlotInterval : SlotIntervalValues]

\* const slotInterval = salon.defaultSlotInterval || 10
slotIntervalOf(defaultSlotInterval) ==
  IF defaultSlotInterval = 0 THEN 10 ELSE defaultSlotInterval

\* the loop counter after one more iteration; the counters below 00:00 are
\* all kept as 0, the loop conditions being the same for them
nextMinutes(minutes, interval) ==
  IF minutes + interval < 0 THEN 0 ELSE minutes + interval

InitLoop ==
  /\ InitStore
  /\ query \in LoopInputs
  /\ slots = <<[pc |-> "generateTimeSlots", minutes |-> parseTime(query.window.startTime),
                steps |-> 0]>>

\* while (currentMinutes < endMinutes) { slots.push(...); currentMinutes += interval }
GenerateTimeSlotsStep ==
  /\ slots[1].pc = "generateTimeSlots"
  /\ slots' = <<IF slots[1].minutes < parseTime(query.window.endTime)
                THEN [slots[1] EXCEPT
                        !.minutes = nextMinutes(slots[1].minutes,
                                                slotIntervalOf(query.defaultSlotInterval)),
                        !.steps = (slots[1].steps + 1) % MaxLoopSteps]
                ELSE [pc |-> "calculateOccupiedSlotsFromRanges",
                      minutes |-> parseTime(query.range.startTime), steps |-> 0]>>
  /\ UNCHANGED <<salon, services, employees, schedules, scheduleCalls, nextScheduleId,
                 appointments, appointmentServices, nextId, now, procs, query>>

\* for (let minutes = startMinutes; minutes < endMinutes; minutes += slotInterval)
OccupiedSlotsStep ==
  /\ slots[1].pc = "calculateOccupiedSlotsFromRanges"
  /\ slots' = <<IF slots[1].minutes < parseTime(query.range.endTime)
                THEN [slots[1] EXCEPT
                        !.minutes = nextMinutes(slots[1].minutes,
                                                slotIntervalOf(query.defaultSlotInterval)),
                        !.steps = (slots[1].steps + 1) % MaxLoopSteps]
                ELSE [pc |-> "done", minutes |-> 0, steps |-> 0]>>
  /\ UNCHANGED <<salon, services, employees, schedules, scheduleCalls, nextScheduleId,
                 appointments, appointmentServices, nextId, now, procs, query>>

NextLoop == GenerateTimeSlotsStep \/ OccupiedSlotsStep

\* the event loop runs the synchronous loops to their end if they have one
SpecLoop == InitLoop /\ [][NextLoop]_vars /\ WF_vars(NextLoop)

----------------------------------------------------------------------------
(* create() on any request: unknown salon, service or employee, service or *)
(* employee of another salon, employee that cannot perform the service     *)

BookingDtos ==
  [salonId : {"salon1", "salon9"},
   services : UNION {[1..n -> [serviceId : Services \cup OtherSalonServices \cup {"s9"},
                               employeeId : Employees \cup OtherSalonEmployees \cup {"e9", None}]] :
                       n \in ServiceCounts},
   appointmentDate : {1},
   startTime : StartTimes]

\* steps 1 and 2 of create(): the exception thrown while the salon and the
\* services are loaded, "" for none
RECURSIVE validateServices(_, _, _)
validateServices(i, serviceBookings, salonId) ==
  IF salonId # "salon1" THEN "NotFound"
  ELSE IF i > Len(serviceBookings)
  THEN IF SumDurations(serviceBookings, 1) = 0 THEN "BadRequest" ELSE ""
  ELSE IF serviceBookings[i].serviceId \notin DOMAIN services THEN "NotFound"
  ELSE IF services[serviceBookings[i].serviceId].salonId # salonId THEN "BadRequest"
  ELSE validateServices(i + 1, serviceBookings, salonId)

\* the exception create() ends with, "ok" for none, and the number of service
\* bookings that had their employee when it was thrown
createOutcome(createAppointmentDto, orders) ==
  LET error == validateServices(1, createAppointmentDto.services, createAppointmentDto.salonId)
      p == planFrom(1, createAppointmentDto.startTime, <<>>, createAppointmentDto, orders)
  IN  IF error # "" THEN [outcome |-> error, resolved |-> 0]
      ELSE IF p.outcome # "ok" THEN [outcome |-> p.outcome, resolved |-> Len(p.serviceAssignments)]
      ELSE IF violatesPrimaryKey(appointmentServiceData(nextId, p.serviceAssignments),
                                 appointmentServices)
      THEN [outcome |-> "InternalError", resolved |-> Len(p.serviceAssignments)]
      ELSE [outcome |-> "ok", resolved |-> Len(p.serviceAssignments)]

\* create() that inserts the appointment and the rows of the service bookings
\* resolved so far before the remaining ones are planned
CreateBookingInsertFirst(createAppointmentDto, orders) ==
  /\ slots = <<>>
  /\ nextId \in AppointmentIds
  /\ slots' = <<createOutcome(createAppointmentDto, orders)>>
  /\ IF validateServices(1, createAppointmentDto.services, createAppointmentDto.salonId) # ""
     THEN UNCHANGED <<appointments, appointmentServices, nextId>>
     ELSE LET p == planFrom(1, createAppointmentDto.startTime, <<>>, createAppointmentDto, orders)
              rows == appointmentServiceData(nextId, p.serviceAssignments)
          IN  /\ appointments' = appointments @@ (nextId :> newAppointment(createAppointmentDto))
              /\ nextId' = nextId + 1
              /\ IF violatesPrimaryKey(rows, appointmentServices)
                 THEN UNCHANGED appointmentServices
                 ELSE appointmentServices' =
                        appointmentServices \cup {rows[i] : i \in DOMAIN rows}
  /\ UNCHANGED <<salon, services, employees, schedules, scheduleCalls, nextScheduleId, now,
                 procs, query>>

\* create(): the request is validated and planned, then the rows are inserted
CreateBooking(createAppointmentDto, orders) ==
  /\ slots = <<>>
  /\ nextId \in AppointmentIds
  /\ slots' = <<createOutcome(createAppointmentDto, orders)>>
  /\ IF validateServices(1, createAppointmentDto.services, createAppointmentDto.salonId) # ""
     THEN UNCHANGED <<appointments, appointmentServices, nextId>>
     ELSE LET p == planFrom(1, createAppointmentDto.startTime, <<>>, createAppointmentDto, orders)
              rows == appointmentServiceData(nextId, p.serviceAssignments)
          IN  IF p.outcome # "ok"
              THEN UNCHANGED <<appointments, appointmentServices, nextId>>
              ELSE /\ appointments' = appointments @@ (nextId :> newAppointment(createAppointmentDto))
                   /\ nextId' = nextId + 1
                   /\ IF violatesPrimaryKey(rows, appointmentServices)
                      THEN UNCHANGED appointmentServices
                      ELSE appointmentServices' =
                             appointmentServices \cup {rows[i] : i \in DOMAIN rows}
  /\ UNCHANGED <<salon, services, employees, schedules, scheduleCalls, nextScheduleId, now,
                 procs, query>>

\* the response is sent
ReturnBooking ==
  /\ slots # <<>>
  /\ slots' = <<>>
  /\ UNCHANGED <<salon, services, employees, schedules, scheduleCalls, nextScheduleId,
                 appointments, appointmentServices, nextId, now, procs, query>>

NextBooking ==
  \/ \E dto \in BookingDtos, orders \in [ServiceCounts -> EmployeeOrders] : CreateBooking(dto, orders)
  \/ ReturnBooking
  \/ \E id \in AppointmentIds : Cancel(id)

SpecBooking == Init /\ [][NextBooking]_vars

----------------------------------------------------------------------------
(* Bookings while the work schedules are edited *)

WindowRequests ==
  [services : {<<[serviceId |-> "s1", employeeId |-> "e1"]>>,
               <<[serviceId |-> "s2", employeeId |-> None]>>},
   appointmentDate : {1},
   startTime : {<<9, 0>>, <<10, 30>>}]

\* UpdateScheduleDto values: the window closed, moved later, and extended
WindowUpdateDtos ==
  {[isAvailable |-> FALSE], [startTime |-> <<10, 0>>, endTime |-> <<12, 0>>],
   [endTime |-> <<13, 0>>]}

NextWindows ==
  \/ \E req \in WindowRequests, orders \in [ServiceCounts -> EmployeeOrders] : Create(req, orders)
  \/ \E id \in AppointmentIds, status \in {"confirmed", "cancelled"} : UpdateStatus(id, status)
  \/ \E dto \in {d \in CreateScheduleDtos : d.dayOfWeek = 2 /\ validateScheduleTimes(d).valid} :
       CreateSchedule("e2", dto)
  \/ \E row \in findByEmployeeAndDay("e1", 1), dto \in WindowUpdateDtos : UpdateScheduleBegin("p1", row.id, dto)
  \/ UpdateScheduleWrite("p1")
  \/ \E row \in findByEmployeeId("e2") : RemoveSchedule(row.id)

SpecWindows == Init /\ [][NextWindows]_vars

----------------------------------------------------------------------------
(* Bookings while employees are deactivated and activated *)

\* EmployeesService.toggleActive: findOne() throws NotFound for an unknown id
ToggleActive(id) ==
  /\ IF id \notin DOMAIN employees
     THEN UNCHANGED employees
     ELSE employees' = [employees EXCEPT ![id].isActive = ~employees[id].isActive]
  /\ UNCHANGED <<salon, services, schedules, scheduleCalls, nextScheduleId, appointments,
                 appointmentServices, nextId, now, procs, query, slots>>

\* one service, with the employee named or left to the auto-assignment
ActiveRequests ==
  [services : {<<[serviceId |-> "s2", employeeId |-> e]>> : e \in Employees \cup {None}},
   appointmentDate : {1},
   startTime : {<<9, 0>>, <<9, 20>>, <<10, 0>>}]

NextActive ==
  \/ \E id \in Employees \cup {"e9"} : ToggleActive(id)
  \/ \E req \in ActiveRequests, orders \in [ServiceCounts -> EmployeeOrders] : Create(req, orders)
  \/ \E id \in AppointmentIds : Cancel(id)

SpecActive == Init /\ [][NextActive]_vars

----------------------------------------------------------------------------
(* Properties *)

Created == DOMAIN appointments' \ DOMAIN appointments

IsActive(id) == id \in DOMAIN appointments /\ appointments[id].status \in ActiveStatuses

\* C1: no two sub-bookings of the same employee on the same date whose
\* appointments are both active have overlapping [start, end) intervals
NoDoubleBooking ==
  \A r1, r2 \in appointmentServices :
    ( /\ r1 # r2
      /\ r1.employeeId = r2.employeeId
      /\ IsActive(r1.appointmentId)
      /\ IsActive(r2.appointmentId)
      /\ appointments[r1.appointmentId].appointmentDate =
           appointments[r2.appointmentId].appointmentDate )
    => ~ ( /\ parseTime(r1.startTime) < parseTime(r2.endTime)
           /\ parseTime(r2.startTime) < parseTime(r1.endTime) )

\* a request for one service with a named employee who can perform it and
\* whose working window on that day admits the interval
AdmissibleAlone(req) ==
  /\ Len(req.services) = 1
  /\ req.services[1].employeeId # None
  /\ exists(req.services[1].employeeId, req.services[1].serviceId)
  /\ \E s \in findByEmployeeAndDay(req.services[1].employeeId, DayOfWeek(req.appointmentDate)) :
       /\ s.isAvailable
       /\ parseTime(req.startTime) >= parseTime(s.startTime)
       /\ parseTime(req.startTime) + services[req.services[1].serviceId].duration
            <= parseTime(s.endTime)

StoredFor(req) ==
  {r \in appointmentServices :
     /\ r.employeeId = req.services[1].employeeId
     /\ r.startTime = req.startTime
     /\ r.appointmentId \in DOMAIN appointments
     /\ appointments[r.appointmentId].appointmentDate = req.appointmentDate}

\* C2: of two concurrent create() calls for the same employee, date and
\* interval exactly one succeeds, the other is rejected, and the storage never
\* holds both bookings
ConcurrentCreateExclusive ==
  \A p, q \in Procs :
    ( /\ p # q
      /\ procs[p].req = procs[q].req
      /\ procs[p].pc # "idle"
      /\ AdmissibleAlone(procs[p].req) )
    => /\ Cardinality(StoredFor(procs[p].req)) <= 1
       /\ (procs[p].pc = "done" /\ procs[q].pc = "done")
            => /\ (procs[p].outcome = "ok") # (procs[q].outcome = "ok")
               /\ {procs[p].outcome, procs[q].outcome} \subseteq {"ok", "Conflict", "InternalError"}

RECURSIVE SumOfDurations(_)
SumOfDurations(rows) ==
  IF rows = {} THEN 0
  ELSE LET r == CHOOSE x \in rows : TRUE
       IN  r.duration + SumOfDurations(rows \ {r})

\* C3: a stored reservation is whole: every appointment row has its
\* sub-booking rows (their durations add up to its total duration), and every
\* sub-booking row has its appointment row
ReservationAllOrNothing ==
  /\ \A id \in DOMAIN appointments :
       LET rows == {r \in appointmentServices : r.appointmentId = id}
       IN  rows # {} /\ SumOfDurations(rows) = appointments[id].totalDuration
  /\ \A r \in appointmentServices : r.appointmentId \in DOMAIN appointments

\* C4: an appointment is only created when its start is strictly after now,
\* at least minAdvanceBookingHours and at most maxAdvanceBookingDays ahead
CreateRespectsTemporalPolicy ==
  [][\A id \in Created :
       /\ appointments'[id].appointmentDate * 1440 + parseTime(appointments'[id].startTime) > now
       /\ validateAppointmentDateTime(salon, appointments'[id].appointmentDate,
                                      appointments'[id].startTime, now) = "ok"]_vars

AllowedTransitions ==
  {<<"pending", "confirmed">>, <<"pending", "cancelled">>,
   <<"confirmed", "in_progress">>, <<"confirmed", "cancelled">>, <<"confirmed", "no_show">>,
   <<"in_progress", "completed">>, <<"in_progress", "no_show">>}

\* C5: the status of a stored appointment only ever changes along the
\* transition table
StatusChangesFollowTable ==
  [][\A id \in DOMAIN appointments \cap DOMAIN appointments' :
       appointments'[id].status # appointments[id].status
         => <<appointments[id].status, appointments'[id].status>> \in AllowedTransitions]_vars

\* C6: an appointment is created pending when the salon requires approval of
\* bookings, and confirmed otherwise
InitialStatusFollowsApproval ==
  [][\A id \in Created :
       appointments'[id].status =
         IF salon.requireBookingApproval THEN "pending" ELSE "confirmed"]_vars

\* an appointment created under required approval, before any status change:
\* the second id is not yet handed out, so no other call has touched it since
WitnessInitialStatus ==
  /\ salon.requireBookingApproval
  /\ nextId = 2
  /\ 1 \in DOMAIN appointments
  /\ appointments[1].status = "pending"
  /\ \E r \in appointmentServices : r.appointmentId = 1

Overlaps(s, e, range) == s < parseTime(range.endTime) /\ parseTime(range.startTime) < e

\* C7: every returned start s has s + duration <= the window's end and
\* [s, s + duration) overlaps no occupied range
AvailabilitySound ==
  slots # <<>> =>
    \A i \in DOMAIN slots[1].validSlots :
      LET s == parseTime(slots[1].validSlots[i])
      IN  /\ s + query.duration <= parseTime(query.endTime)
          /\ \A b \in query.busy : ~Overlaps(s, s + query.duration, b)

\* the candidates start + k * interval inside [start, end)
Candidates(q) ==
  {m \in parseTime(q.startTime)..(parseTime(q.endTime) - 1) :
     (m - parseTime(q.startTime)) % q.interval = 0}

BruteForce(q) ==
  {m \in Candidates(q) :
     /\ m + q.duration <= parseTime(q.endTime)
     /\ \A b \in q.busy : ~Overlaps(m, m + q.duration, b)}

\* C8: the returned starts are exactly the candidates that fit in the window
\* and overlap no occupied range
AvailabilityMatchesBruteForce ==
  slots # <<>> =>
    {parseTime(slots[1].validSlots[i]) : i \in DOMAIN slots[1].validSlots} = BruteForce(query)

\* C9: generateTimeSlots gives, ascending and without duplicates, exactly the
\* times start + k * interval that are >= start and < end
SlotGenerationExact ==
  slots # <<>> =>
    LET all == slots[1].allSlots
    IN  /\ \A i, j \in DOMAIN all : i < j => parseTime(all[i]) < parseTime(all[j])
        /\ {parseTime(all[i]) : i \in DOMAIN all} = Candidates(query)
        /\ \A i \in DOMAIN all : all[i] = formatTime(parseTime(query.startTime) + (i - 1) * query.interval)

\* slots generated for a window whose length is a multiple of the interval:
\* start + k * interval hits the end, which must be left out
WitnessSlotGeneration ==
  /\ slots # <<>>
  /\ Len(slots[1].allSlots) >= 2
  /\ (parseTime(query.endTime) - parseTime(query.startTime)) % query.interval = 0
  /\ parseTime(slots[1].allSlots[Len(slots[1].allSlots)]) + query.interval = parseTime(query.endTime)

\* C10 as stated: for any two pairs of times the overlap test gives the same
\* answer in both orders
OverlapSymmetric ==
  slots # <<>> => slots[1].ab = slots[1].ba

WellFormed(range) == parseTime(range.start) <= parseTime(range.end)

\* C10, amended: for time ranges whose start is not after their end the
\* overlap test gives the same answer in both orders
OverlapSymmetricWellFormed ==
  (slots # <<>> /\ WellFormed(query.a) /\ WellFormed(query.b)) => slots[1].ab = slots[1].ba

\* two different well-formed ranges, one inside the other, found to overlap
WitnessOverlapSymmetric ==
  /\ slots # <<>>
  /\ WellFormed(query.a) /\ WellFormed(query.b)
  /\ parseTime(query.a.start) < parseTime(query.b.start)
  /\ parseTime(query.b.end) < parseTime(query.a.end)
  /\ parseTime(query.b.start) < parseTime(query.b.end)
  /\ slots[1].ab /\ slots[1].ba

ProperRange(range) == parseTime(range.start) < parseTime(range.end)

\* C11: for ranges with start < end, doTimeRangesOverlap and the overlap test
\* of validateEmployeeAvailability both equal a.start < b.end /\ b.start < a.end,
\* so ranges that merely touch do not overlap
OverlapIsSinglePredicate ==
  (slots # <<>> /\ ProperRange(query.a) /\ ProperRange(query.b)) =>
    LET expected == /\ parseTime(query.a.start) < parseTime(query.b.end)
                    /\ parseTime(query.b.start) < parseTime(query.a.end)
    IN  /\ slots[1].ab = expected
        /\ slots[1].inline = expected
        /\ (query.a.end = query.b.start) => (~slots[1].ab /\ ~slots[1].inline)

\* two proper ranges that touch (a ends where b starts), found not to overlap
\* by both tests
WitnessTouchingRanges ==
  /\ slots # <<>>
  /\ ProperRange(query.a) /\ ProperRange(query.b)
  /\ query.a.end = query.b.start
  /\ ~slots[1].ab /\ ~slots[1].inline

\* the minutes taken by the first k services of a request
RECURSIVE DurationBefore(_, _)
DurationBefore(serviceBookings, k) ==
  IF k = 0 THEN 0
  ELSE services[serviceBookings[k].serviceId].duration + DurationBefore(serviceBookings, k - 1)

\* C12: the sub-bookings stored for an accepted request are in request order,
\* the first starts at the requested start, each ends at its start plus its
\* duration, each next one starts where the previous ends, and the appointment
\* ends where the last one ends: at the start plus the sum of the durations
SequentialPlanning ==
  \A p \in Procs :
    (procs[p].pc = "done" /\ procs[p].outcome = "ok") =>
      LET req  == procs[p].req
          id   == procs[p].appointmentId
          n    == Len(req.services)
          T    == parseTime(req.startTime)
          rows == {r \in appointmentServices : r.appointmentId = id}
      IN  /\ id \in DOMAIN appointments
          /\ Cardinality(rows) = n
          /\ \A i \in 1..n :
               \E r \in rows :
                 /\ r.orderIndex = i - 1
                 /\ r.serviceId = req.services[i].serviceId
                 /\ r.duration = services[req.services[i].serviceId].duration
                 /\ parseTime(r.startTime) = T + DurationBefore(req.services, i - 1)
                 /\ parseTime(r.endTime) = parseTime(r.startTime) + r.duration
          /\ \A r1, r2 \in rows :
               r2.orderIndex = r1.orderIndex + 1 => r2.startTime = r1.endTime
          /\ appointments[id].startTime = req.startTime
          /\ parseTime(appointments[id].endTime) = T + DurationBefore(req.services, n)
          /\ \E last \in rows :
               last.orderIndex = n - 1 /\ last.endTime = appointments[id].endTime

\* an accepted request for the 30-minute and then the 20-minute service from
\* 09:00: stored as 09:00-09:30 and 09:30-09:50, the appointment ends at 09:50
WitnessSequentialPlanning ==
  \E p \in Procs :
    /\ procs[p].pc = "done" /\ procs[p].outcome = "ok"
    /\ procs[p].req.startTime = <<9, 0>>
    /\ Len(procs[p].req.services) = 2
    /\ procs[p].req.services[1].serviceId = "s1"
    /\ procs[p].req.services[2].serviceId = "s2"
    /\ \E r1, r2 \in appointmentServices :
         /\ r1.appointmentId = procs[p].appointmentId
         /\ r2.appointmentId = procs[p].appointmentId
         /\ r1.startTime = <<9, 0>> /\ r1.endTime = <<9, 30>>
         /\ r2.startTime = <<9, 30>> /\ r2.endTime = <<9, 50>>
    /\ appointments[procs[p].appointmentId].endTime = <<9, 50>>

\* the service request a create() call is working on, and what makes its
\* named employee unavailable: no working window that day, the interval not
\* inside the window, or an active booking of the employee overlapping it
RoundBooking(p) == procs[p].req.services[procs[p].i]

RoundUnavailable(p, employeeId) ==
  LET date    == procs[p].req.appointmentDate
      cursor  == parseTime(procs[p].currentTime)
      subEnd  == cursor + services[RoundBooking(p).serviceId].duration
      windows == {s \in schedules : /\ s.employeeId = employeeId
                                    /\ s.dayOfWeek = DayOfWeek(date)
                                    /\ s.isAvailable}
  IN  \/ windows = {}
      \/ \E w \in windows : cursor < parseTime(w.startTime) \/ subEnd > parseTime(w.endTime)
      \/ \E r \in appointmentServices :
           /\ r.employeeId = employeeId
           /\ IsActive(r.appointmentId)
           /\ appointments[r.appointmentId].appointmentDate = date
           /\ cursor < parseTime(r.endTime)
           /\ parseTime(r.startTime) < subEnd

RoundRuns(p) == procs[p].pc = "plan" /\ procs'[p] # procs[p]

RoundRejected(p, error) == procs'[p].pc = "done" /\ procs'[p].outcome = error

RoundAccepted(p, employeeId) ==
  /\ procs'[p].outcome = None
  /\ Len(procs'[p].serviceAssignments) = procs[p].i
  /\ procs'[p].serviceAssignments[procs[p].i].employeeId = employeeId

\* C13 as stated: a service request that names an employee is rejected with
\* the conflict error whenever the employee has no working window that day,
\* the interval is not inside the window or it overlaps an active booking of
\* the employee, and is accepted only when none of these holds
NamedEmployeeUnavailable ==
  [][\A p \in Procs :
       (RoundRuns(p) /\ RoundBooking(p).employeeId # None) =>
         /\ RoundUnavailable(p, RoundBooking(p).employeeId) => RoundRejected(p, "Conflict")
         /\ RoundAccepted(p, RoundBooking(p).employeeId)
              => ~RoundUnavailable(p, RoundBooking(p).employeeId)]_vars

\* C13, amended: for a named employee who can perform the service, the
\* request is rejected with the conflict error exactly when the employee has
\* no working window that day, the interval is not inside the window or it
\* overlaps an active booking of the employee, and is accepted otherwise
NamedCapableEmployeeUnavailable ==
  [][\A p \in Procs :
       ( /\ RoundRuns(p)
         /\ RoundBooking(p).employeeId # None
         /\ exists(RoundBooking(p).employeeId, RoundBooking(p).serviceId) ) =>
         IF RoundUnavailable(p, RoundBooking(p).employeeId)
         THEN RoundRejected(p, "Conflict")
         ELSE RoundAccepted(p, RoundBooking(p).employeeId)]_vars

\* a call rejected with the conflict error at a service request naming a
\* capable employee whose working window that day ends before the service would
WitnessNamedEmployeeUnavailable ==
  \E p \in Procs :
    /\ procs[p].pc = "done" /\ procs[p].outcome = "Conflict"
    /\ RoundBooking(p).employeeId # None
    /\ exists(RoundBooking(p).employeeId, RoundBooking(p).serviceId)
    /\ \E w \in findByEmployeeAndDay(RoundBooking(p).employeeId,
                                      DayOfWeek(procs[p].req.appointmentDate)) :
         /\ w.isAvailable
         /\ parseTime(procs[p].currentTime) >= parseTime(w.startTime)
         /\ parseTime(procs[p].currentTime) + services[RoundBooking(p).serviceId].duration
              > parseTime(w.endTime)

\* the employees who can perform the service of the request being worked on
\* and are available for its interval
RoundPassing(p) ==
  {e \in Employees : exists(e, RoundBooking(p).serviceId) /\ ~RoundUnavailable(p, e)}

\* C14: a service request without an employee gets an employee who can
\* perform the service and is available; it is rejected only if there is none;
\* and the same stored state and request always give the same employee: a call
\* working from the untouched initial storage on the same request as another
\* call assigns what that call assigned
AutoAssignmentDeterministic ==
  [][\A p \in Procs :
       (RoundRuns(p) /\ RoundBooking(p).employeeId = None) =>
         /\ IF RoundPassing(p) = {}
            THEN RoundRejected(p, "Conflict")
            ELSE \E e \in RoundPassing(p) : RoundAccepted(p, e)
         /\ \A q \in Procs \ {p} :
              ( /\ procs[q].req = procs[p].req
                /\ appointments = <<>>
                /\ Len(procs[q].serviceAssignments) >= procs[p].i )
              => RoundAccepted(p, procs[q].serviceAssignments[procs[p].i].employeeId)]_vars

EntrySet(results) == {results[i] : i \in DOMAIN results}

\* the entries a new invocation of the query would return
FreshEntries(q) ==
  EntrySet(getAvailableTimeSlots(q.employeeIds, q.serviceIds, q.date,
                                 CHOOSE o \in EmployeeOrders : TRUE))

\* C15: the availability query changes no stored value, and whenever the
\* working windows, the occupancy and the duration are what they were when a
\* request was answered, a new invocation for it returns the same starts
AvailabilityIsPure ==
  /\ [][(slots = <<>> /\ slots' # <<>>) =>
          UNCHANGED <<salon, services, employees, schedules, appointments,
                      appointmentServices, nextId, now>>]_vars
  /\ []((slots # <<>> /\ slots[1].inputs = QueryInputs(query))
          => FreshEntries(query) = EntrySet(slots[1].results))

\* a request answered with some free starts for an employee who holds an
\* active booking that date, as does another employee, with the windows, the
\* occupancy and the duration still what the answer was computed from
WitnessAvailabilityIsPure ==
  /\ slots # <<>>
  /\ slots[1].inputs = QueryInputs(query)
  /\ \E entry \in EntrySet(slots[1].results) :
       /\ entry.availableSlots # <<>>
       /\ Occupancy(entry.employeeId, query.date) # {}
       /\ \E other \in Employees \ {entry.employeeId} : Occupancy(other, query.date) # {}

\* the starts of the 10-minute slot grid from 09:00 to 09:30
GridStarts == {<<9, 0>>, <<9, 10>>, <<9, 20>>, <<9, 30>>}

\* a booking request for the services of a list, each with the given employee
RequestFor(serviceIds, employeeId, date, startTime) ==
  [services        |-> [i \in DOMAIN serviceIds |->
                          [serviceId |-> serviceIds[i], employeeId |-> employeeId]],
   appointmentDate |-> date,
   startTime       |-> startTime]

\* create() gets through its working-window and conflict checks for the request
CreatePasses(req) ==
  \E o \in EmployeeOrders :
    planFrom(1, req.startTime, <<>>, req, [i \in DOMAIN req.services |-> o]).outcome = "ok"

OfferedIn(results, startTime) ==
  \E entry \in EntrySet(results) :
    \E i \in DOMAIN entry.availableSlots : entry.availableSlots[i] = startTime

\* C16: when no employee is named, the availability query offers a start for
\* some employee exactly when create() passes its working-window and conflict
\* checks for every service of the same list on the same date at that start
QueryAndCreateAgree ==
  [][(slots = <<>> /\ slots' # <<>> /\ query'.employeeIds = <<>>) =>
       \A startTime \in GridStarts :
         OfferedIn(slots'[1].results, startTime)
           <=> CreatePasses(RequestFor(query'.serviceIds, None, query'.date, startTime))]_vars

\* C17: every start the availability query returns for an employee can be
\* booked: create() of the same services, all assigned to that employee, on
\* that date at that start, on the same stored rows, passes the working-window
\* and conflict checks
OfferedSlotBooks ==
  [][(slots = <<>> /\ slots' # <<>>) =>
       \A entry \in EntrySet(slots'[1].results) :
         \A i \in DOMAIN entry.availableSlots :
           CreatePasses(RequestFor(query'.serviceIds, entry.employeeId, query'.date,
                                   entry.availableSlots[i]))]_vars

\* C18: a sub-booking is stored with the duration (and price) the catalog
\* has when it is booked, ending at its start plus that duration, and an edit
\* of the catalog leaves every stored appointment and sub-booking row unchanged
DurationSnapshot ==
  [][/\ \A r \in appointmentServices' \ appointmentServices :
          /\ r.duration = services[r.serviceId].duration
          /\ r.price = services[r.serviceId].price
          /\ parseTime(r.endTime) = parseTime(r.startTime) + r.duration
     /\ services' # services =>
          /\ appointments' = appointments
          /\ appointmentServices' = appointmentServices
     /\ \A r \in appointmentServices :
          r.appointmentId \in DOMAIN appointments' => r \in appointmentServices']_vars

\* a stored sub-booking whose duration is no longer the one in the catalog
WitnessDurationSnapshot ==
  \E r \in appointmentServices :
    /\ r.duration # services[r.serviceId].duration
    /\ parseTime(r.endTime) = parseTime(r.startTime) + r.duration

\* no active booking of the employee on the date meets [startTime, startTime + duration)
FreeOfActive(employeeId, date, startTime, duration) ==
  \A r \in Occupancy(employeeId, date) :
    ~(parseTime(startTime) < parseTime(r.endTime)
        /\ parseTime(startTime) + duration > parseTime(r.startTime))

\* [startTime, startTime + duration] lies in the working window of the employee
InWindow(employeeId, date, startTime, duration) ==
  \E w \in Window(employeeId, date) :
    /\ parseTime(w.startTime) <= parseTime(startTime)
    /\ parseTime(startTime) + duration <= parseTime(w.endTime)

\* the starts the slot grid of the employee's window has
WindowStarts(employeeId, date) ==
  UNION {LET all == generateTimeSlots(w.startTime, w.endTime, salon.defaultSlotInterval)
         IN  {all[i] : i \in DOMAIN all} : w \in Window(employeeId, date)}

\* the dates that have a booking, of any status
BookedDates == {appointments[id].appointmentDate : id \in DOMAIN appointments}

\* the rows of bookings that are cancelled, completed or no_show
InactiveRows ==
  {r \in appointmentServices :
     /\ r.appointmentId \in DOMAIN appointments
     /\ appointments[r.appointmentId].status \notin ActiveStatuses}

\* C19: only the active bookings occupy time: a start of the window grid that
\* no active booking of the employee meets is in the employee's answer of the
\* availability query, and create() passes for it, whatever cancelled,
\* completed or no_show bookings lie there; in particular the interval of a
\* cancelled booking that no active booking meets can be booked again
OnlyActiveBookingsOccupy ==
  /\ (slots # <<>> /\ slots[1].inputs = QueryInputs(query)) =>
       \A entry \in EntrySet(slots[1].results) :
         \A startTime \in WindowStarts(entry.employeeId, query.date) :
           LET duration == totalDurationOf(query.serviceIds, 1)
           IN  (/\ InWindow(entry.employeeId, query.date, startTime, duration)
                /\ FreeOfActive(entry.employeeId, query.date, startTime, duration))
                 => \E i \in DOMAIN entry.availableSlots : entry.availableSlots[i] = startTime
  /\ \A employeeId \in Employees, serviceIds \in ServiceIdLists, date \in BookedDates,
        startTime \in GridStarts \cup OfferStartTimes :
       LET duration == totalDurationOf(serviceIds, 1)
       IN  (/\ canPerformAll(employeeId, serviceIds)
            /\ InWindow(employeeId, date, startTime, duration)
            /\ FreeOfActive(employeeId, date, startTime, duration))
             => CreatePasses(RequestFor(serviceIds, employeeId, date, startTime))
  /\ \A r \in InactiveRows :
       LET date == appointments[r.appointmentId].appointmentDate
       IN  (/\ services[r.serviceId].duration = r.duration
            /\ FreeOfActive(r.employeeId, date, r.startTime, r.duration))
             => CreatePasses(RequestFor(<<r.serviceId>>, r.employeeId, date, r.startTime))

\* a cancelled booking lies on a start that the availability query offers for
\* its employee, and that start has since been booked again for the employee
WitnessOnlyActiveBookingsOccupy ==
  /\ slots # <<>>
  /\ \E r \in InactiveRows :
       /\ appointments[r.appointmentId].status = "cancelled"
       /\ appointments[r.appointmentId].appointmentDate = query.date
       /\ \E entry \in EntrySet(slots[1].results) :
            /\ entry.employeeId = r.employeeId
            /\ \E i \in DOMAIN entry.availableSlots : entry.availableSlots[i] = r.startTime
       /\ \E id \in DOMAIN appointments :
            /\ appointments[id].status = "completed"
            /\ \E r2 \in appointmentServices :
                 /\ r2.appointmentId = id
                 /\ r2.employeeId = r.employeeId
                 /\ r2.startTime = r.startTime

\* what the validator must answer for a window
validateWindowContract(window) ==
  LET start  == parseTime(window.startTime)
      end    == parseTime(window.endTime)
      result == validateScheduleTimes(window)
  IN  /\ start >= end => result = [valid |-> FALSE, error |-> "Start time must be before end time"]
      /\ (start < end /\ end - start < 120)
           => result = [valid |-> FALSE, error |-> "Shift must be at least 2 hours long"]
      /\ (start < end /\ end - start > 720)
           => result = [valid |-> FALSE, error |-> "Shift cannot exceed 12 hours"]
      /\ (start < end /\ end - start >= 120 /\ end - start <= 720) => result.valid

BoundaryWindows ==
  [startTime : {<<9, 0>>, <<11, 0>>, <<21, 0>>},
   endTime   : {<<9, 0>>, <<10, 59>>, <<11, 0>>, <<20, 59>>, <<21, 0>>, <<21, 1>>, <<23, 0>>}]

\* the validator answers as required on every window of the boundary set
ValidatorAnswers == \A window \in BoundaryWindows : validateWindowContract(window)

\* C20: the validator rejects a window whose start is not before its end and
\* one shorter than 120 or longer than 720 minutes and accepts the others, and
\* every stored working window has start < end and 120 <= duration <= 720
StoredWindowsValid ==
  /\ ValidatorAnswers
  /\ \A row \in schedules :
       /\ parseTime(row.startTime) < parseTime(row.endTime)
       /\ calculateDuration(row.startTime, row.endTime) >= 120
       /\ calculateDuration(row.startTime, row.endTime) <= 720

\* the error of the salon-hours check is the one the window calls for
salonHoursContract(dayOfWeek, window) ==
  LET error == salonHoursError(dayOfWeek, window.startTime, window.endTime)
      hours == salonOperatingHours[dayOfWeek]
  IN  IF dayOfWeek \notin DOMAIN salonOperatingHours
      THEN error = "Salon has no operating hours defined for day"
      ELSE IF hours.closed THEN error = "Salon is closed on day"
      ELSE IF parseTime(window.startTime) < parseTime(hours.startTime)
      THEN error = "Employee start time is before salon opens"
      ELSE IF parseTime(window.endTime) > parseTime(hours.endTime)
      THEN error = "Employee end time is after salon closes"
      ELSE error = ""

ContainmentWindows ==
  [startTime : {<<6, 59>>, <<7, 0>>, <<9, 0>>},
   endTime   : {<<12, 0>>, <<12, 1>>, <<22, 0>>, <<22, 1>>}]

\* C21: a candidate is rejected when the salon has no hours for the weekday
\* or is closed, when it starts before the opening or ends after the closing,
\* and every stored working window lies inside the salon's hours of its
\* weekday, which is not closed
StoredWindowsContained ==
  /\ \A dayOfWeek \in 0..6, window \in ContainmentWindows :
       salonHoursContract(dayOfWeek, window)
  /\ \A row \in schedules :
       /\ row.dayOfWeek \in DOMAIN salonOperatingHours
       /\ ~salonOperatingHours[row.dayOfWeek].closed
       /\ parseTime(row.startTime) >= parseTime(salonOperatingHours[row.dayOfWeek].startTime)
       /\ parseTime(row.endTime) <= parseTime(salonOperatingHours[row.dayOfWeek].endTime)

\* C22: no employee has two stored working windows on one weekday, and a
\* step that changes the stored windows never leaves two on one weekday
OneWindowPerDay ==
  \A r1, r2 \in schedules :
    (r1.employeeId = r2.employeeId /\ r1.dayOfWeek = r2.dayOfWeek) => r1 = r2

\* an updateSchedule call that moves a window to a weekday has passed its
\* checks while the employee has a window on that weekday, not overlapping it
WitnessOneWindowPerDay ==
  \E p \in Procs :
    /\ scheduleCalls[p].pc = "write"
    /\ provided(scheduleCalls[p].dto, "dayOfWeek")
    /\ \E r1, r2 \in schedules :
         /\ r1.id = scheduleCalls[p].id
         /\ r2.id # r1.id
         /\ r2.employeeId = r1.employeeId
         /\ r2.dayOfWeek = scheduleCalls[p].dto.dayOfWeek
         /\ r1.dayOfWeek # r2.dayOfWeek

\* C23: a conflict is reported exactly when some stored window other than
\* the one being updated (same id) is on the candidate's weekday and has
\* a.start < b.end and b.start < a.end with it: the candidate's own row and
\* the windows of other weekdays never count, every other overlapping one does
ConflictsAreOtherSameDayOverlaps ==
  slots # <<>> =>
    (slots[1].hasConflicts <=>
       \E existing \in query.existingSchedules :
         /\ existing.id # query.newSchedule.id
         /\ existing.dayOfWeek = query.newSchedule.dayOfWeek
         /\ parseTime(query.newSchedule.startTime) < parseTime(existing.endTime)
         /\ parseTime(existing.startTime) < parseTime(query.newSchedule.endTime))

\* a stored window is updated to a range that overlaps its old one and a
\* window of another weekday, and no conflict is reported
WitnessConflictsAreOtherSameDayOverlaps ==
  /\ slots # <<>>
  /\ ~slots[1].hasConflicts
  /\ \E own, other \in query.existingSchedules :
       /\ own.id = query.newSchedule.id
       /\ own.dayOfWeek = query.newSchedule.dayOfWeek
       /\ parseTime(query.newSchedule.startTime) < parseTime(own.endTime)
       /\ parseTime(own.startTime) < parseTime(query.newSchedule.endTime)
       /\ other.id # own.id
       /\ other.dayOfWeek # query.newSchedule.dayOfWeek
       /\ parseTime(query.newSchedule.startTime) < parseTime(other.endTime)
       /\ parseTime(other.startTime) < parseTime(query.newSchedule.endTime)

\* every start of the employee's window grid that fits is met by an active booking
AllCandidatesOccupied(employeeId, date, duration) ==
  \A startTime \in WindowStarts(employeeId, date) :
    InWindow(employeeId, date, startTime, duration)
      => ~FreeOfActive(employeeId, date, startTime, duration)

\* the query throws only when a requested service or employee does not exist
ThrowsOnlyNotFound(q, answer) ==
  answer.error # "" =>
    \/ \E i \in DOMAIN q.serviceIds : q.serviceIds[i] \notin DOMAIN services
    \/ \E i \in DOMAIN q.employeeIds : q.employeeIds[i] \notin DOMAIN employees

\* an employee with no available window, or with every candidate occupied,
\* gets an empty list of starts
EmptyListWhenNothingFree(q, answer) ==
  \A e \in Targets(q) \cap DOMAIN employees :
    (/\ \A i \in DOMAIN q.serviceIds : q.serviceIds[i] \in Services
     /\ canPerformAll(e, q.serviceIds)
     /\ \/ Window(e, q.date) = {}
        \/ AllCandidatesOccupied(e, q.date, totalDurationOf(q.serviceIds, 1)))
      => /\ answer.error = ""
         /\ \E entry \in EntrySet(answer.results) :
              entry.employeeId = e /\ entry.availableSlots = <<>>

\* C24: the availability query throws only for a service or employee that
\* does not exist, and answers with an empty list of starts for an employee
\* who has no working window that weekday, whose window is unavailable, or
\* whose every candidate is occupied
EmptyIsAnAnswer ==
  [][(slots = <<>> /\ slots' # <<>>) =>
       /\ ThrowsOnlyNotFound(query', slots'[1])
       /\ EmptyListWhenNothingFree(query', slots'[1])]_vars

\* the entries of the request of a call are all among the rows, for its employee
AllEntriesStored(call, rows) ==
  \A i \in DOMAIN call.dto :
    \E row \in rows :
      /\ row.employeeId = call.employeeId
      /\ row.dayOfWeek = call.dto[i].dayOfWeek
      /\ row.startTime = call.dto[i].startTime
      /\ row.endTime = call.dto[i].endTime

OfferedToEmployee(q) ==
  /\ loadServicesError(1, <<q.serviceId>>, "") = ""
  /\ \E entry \in EntrySet(getAvailableTimeSlots(<<q.employeeId>>, <<q.serviceId>>, q.date,
                                                 CHOOSE o \in EmployeeOrders : TRUE)) :
       /\ entry.employeeId = q.employeeId
       /\ \E i \in DOMAIN entry.availableSlots : entry.availableSlots[i] = q.startTime.time

\* C26: checkAvailability answers available exactly when the requested time
\* is a start the availability query returns for the employee, the service
\* and the date, and gives a reason whenever it answers not available
CheckMatchesAvailability ==
  [][(slots = <<>> /\ slots' # <<>>) =>
       /\ slots'[1].available <=> OfferedToEmployee(query')
       /\ ~slots'[1].available => slots'[1].reason # ""]_vars

\* C27: for every window, booking and value of defaultSlotInterval, the
\* loop that generates the candidates and the loop that marks the occupied
\* slots come to their end
SlotLoopsTerminate == <>(slots[1].pc = "done")

\* the exceptions create() throws from its validation and planning steps
Rejections == {"NotFound", "BadRequest", "Conflict"}

\* C28: a createBooking call rejected by validation or planning leaves the
\* stored appointments and appointment_services rows exactly as they were
RejectedBookingPersistsNothing ==
  [][(slots = <<>> /\ slots' # <<>> /\ slots'[1].outcome \in Rejections)
       => UNCHANGED <<appointments, appointmentServices, nextId>>]_vars

\* a call was rejected at a later service after an earlier one had its employee,
\* while a booking is stored
WitnessRejectedBookingPersistsNothing ==
  /\ slots # <<>>
  /\ slots[1].outcome = "Conflict"
  /\ slots[1].resolved >= 1
  /\ appointmentServices # {}

\* the appointment_services rows of the appointments in an active status
ActiveRows ==
  {row \in appointmentServices :
     /\ row.appointmentId \in DOMAIN appointments
     /\ appointments[row.appointmentId].status \in ActiveStatuses}

\* C29: every active sub-booking lies inside an available working window of
\* its employee for the weekday of its date
ActiveBookingsInsideWindow ==
  \A row \in ActiveRows :
    \E s \in schedules :
      /\ s.employeeId = row.employeeId
      /\ s.dayOfWeek = DayOfWeek(appointments[row.appointmentId].appointmentDate)
      /\ s.isAvailable
      /\ parseTime(s.startTime) <= parseTime(row.startTime)
      /\ parseTime(row.endTime) <= parseTime(s.endTime)

\* C30: no sub-booking is created for an employee who is inactive when the
\* booking is made, whether the employee is named or auto-assigned
NoBookingForInactiveEmployee ==
  [][\A row \in appointmentServices' \ appointmentServices :
       employees[row.employeeId].isActive]_vars

====
